---- MODULE Spec2Model ----
(***************************************************************************)
(* Backend IR of the JIT: the Assembler and its builders                   *)
(* (src/yjit/src/backend/ir.rs), the x86-64 splitter                       *)
(* (src/yjit/src/backend/x86_64/mod.rs, x86_split), the linear-scan        *)
(* register allocator (ir.rs, alloc_regs) and the x86-64 emitter           *)
(* (x86_64/mod.rs, x86_emit) writing into a CodeBlock.                     *)
(*                                                                         *)
(* Instruction indices are 0-based as in the source; TLA+ sequences are    *)
(* 1-based, so At(s, i) reads element i of a Vec.                          *)
(* A 64-bit quantity (i64, u64, VALUE) is its bit pattern, written as four *)
(* 16-bit limbs <<l3, l2, l1, l0>>, most significant first.                *)
(* A panic (assert!, panic!, unreachable!) ends the compilation: the       *)
(* message is kept in the err field of the Assembler being written and     *)
(* then in the variable err, with pc = "abort".                            *)
(***************************************************************************)
EXTENDS Integers, Sequences, FiniteSets, TLC

\* ---------------------------------------------------------------- bounds
MaxPushInsns == 2
MaxInsns == 3
MaxLabels == 1
MaxCallInsns == 2
MaxValueInsns == 2
MaxArgs == 7
MaxMemIdx == 1
MaxIdemInsns == 3
MaxPad == 2

\* ------------------------------------------------------------- utilities
At(s, i) == s[i + 1]

Last(s) == s[Len(s)]

\* ------------------------------------------------------- 64-bit patterns
Bits64(l3, l2, l1, l0) == <<l3, l2, l1, l0>>

HiZero(v) == v[1] = 0 /\ v[2] = 0 /\ v[3] = 0

HiOnes(v) == v[1] = 65535 /\ v[2] = 65535 /\ v[3] = 65535

\* smallest of 8, 16, 32, 64 in which the pattern, read as an i64, fits
imm_num_bits(v) ==
    IF (HiZero(v) /\ v[4] < 128) \/ (HiOnes(v) /\ v[4] >= 65408) THEN 8
    ELSE IF (HiZero(v) /\ v[4] < 32768) \/ (HiOnes(v) /\ v[4] >= 32768) THEN 16
    ELSE IF \/ (v[1] = 0 /\ v[2] = 0 /\ v[3] < 32768)
            \/ (v[1] = 65535 /\ v[2] = 65535 /\ v[3] >= 32768) THEN 32
    ELSE 64

\* smallest of 8, 16, 32, 64 in which the pattern, read as a u64, fits
uimm_num_bits(v) ==
    IF HiZero(v) /\ v[4] < 256 THEN 8
    ELSE IF HiZero(v) THEN 16
    ELSE IF v[1] = 0 /\ v[2] = 0 THEN 32
    ELSE 64

\* VALUE predicates of the runtime value model
Qnil == Bits64(0, 0, 0, 8)

Qfalse == Bits64(0, 0, 0, 0)

immediate_p(v) == v[4] % 8 # 0

special_const_p(v) == immediate_p(v) \/ v = Qnil \/ v = Qfalse

heap_object_p(v) == ~special_const_p(v)

\* as_i64 and as_u64 reinterpret the same 64 bits
as_i64(v) == v

as_u64(v) == v

\* --------------------------------------------------------------- operands
OpndNone == [kind |-> "None"]

Value(v) == [kind |-> "Value", val |-> v]

InsnOut(idx, num_bits) == [kind |-> "InsnOut", idx |-> idx, num_bits |-> num_bits]

Imm(v) == [kind |-> "Imm", val |-> v]

UImm(v) == [kind |-> "UImm", val |-> v]

Reg(reg_no, num_bits) == [kind |-> "Reg", reg_no |-> reg_no, num_bits |-> num_bits]

MemBaseReg(reg_no) == [kind |-> "Reg", n |-> reg_no]

MemBaseInsnOut(idx) == [kind |-> "InsnOut", n |-> idx]

Mem(base, disp, num_bits) == [kind |-> "Mem", base |-> base, disp |-> disp, num_bits |-> num_bits]

Panic(msg) == [kind |-> "Panic", msg |-> msg]

\* x86-64 registers, by encoding number
RAX_REG == Reg(0, 64)
RCX_REG == Reg(1, 64)
RDX_REG == Reg(2, 64)
RBX_REG == Reg(3, 64)
RSI_REG == Reg(6, 64)
RDI_REG == Reg(7, 64)
R8_REG == Reg(8, 64)
R9_REG == Reg(9, 64)
R12_REG == Reg(12, 64)
R13_REG == Reg(13, 64)

sub_reg(reg, num_bits) == Reg(reg.reg_no, num_bits)

CFP == R13_REG
EC == R12_REG
SP == RBX_REG

C_ARG_OPNDS == <<RDI_REG, RSI_REG, RDX_REG, RCX_REG, R8_REG, R9_REG>>

C_RET_REG == RAX_REG

get_alloc_regs == <<RAX_REG, RCX_REG, RDX_REG>>

IsMemInsnOut(o) == o.kind = "Mem" /\ o.base.kind = "InsnOut"

\* Opnd::mem: in the InsnOut arm the pattern binds num_bits, so the width
\* stored in the Mem is the base's, not the argument's.
mem(num_bits, base, disp) ==
    IF base.kind = "Reg" THEN
        IF base.num_bits # 64 THEN Panic("assertion failed: base_reg.num_bits == 64")
        ELSE Mem(MemBaseReg(base.reg_no), disp, num_bits)
    ELSE IF base.kind = "InsnOut" THEN
        IF base.num_bits # 64 THEN Panic("assertion failed: num_bits == 64")
        ELSE Mem(MemBaseInsnOut(base.idx), disp, base.num_bits)
    ELSE Panic("memory operand with non-register base")

rm_num_bits(o) ==
    IF o.kind \in {"Reg", "Mem", "InsnOut"} THEN o.num_bits ELSE -1

\* Opnd::map_index
map_index(o, indices) ==
    IF o.kind = "InsnOut" THEN InsnOut(At(indices, o.idx), o.num_bits)
    ELSE IF IsMemInsnOut(o) THEN Mem(MemBaseInsnOut(At(indices, o.base.n)), o.disp, o.num_bits)
    ELSE o

\* ---------------------------------------------------------------- targets
TargetNone == [kind |-> "None"]

CodePtr(a) == [kind |-> "CodePtr", n |-> a]

FunPtr(a) == [kind |-> "FunPtr", n |-> a]

Label(idx) == [kind |-> "Label", n |-> idx]

\* ------------------------------------------------------------ instructions
Insn(op, opnds, target, text) ==
    [op |-> op, text |-> text, opnds |-> opnds, out |-> OpndNone, target |-> target]

\* the builders of impl Assembler, by shape
Ops2Out == {"Add", "And", "CSelE", "CSelG", "CSelGE", "CSelL", "CSelLE", "CSelNE",
            "CSelNZ", "CSelZ", "LShift", "Or", "RShift", "Sub", "URShift", "Xor"}

Ops2NoOut == {"Cmp", "IncrCounter", "Mov", "Store", "Test"}

Ops1Out == {"Lea", "LiveReg", "Load", "LoadSExt", "Not"}

Ops1NoOut == {"CPopInto", "CPush", "CRet", "JmpOpnd"}

Ops0Out == {"CPop"}

Ops0NoOut == {"Breakpoint", "CPopAll", "CPushAll", "FrameSetup", "FrameTeardown", "PosMarker"}

OpsText == {"BakeString", "Comment"}

OpsTargetNoOut == {"Jbe", "Je", "Jl", "Jmp", "Jne", "Jnz", "Jo", "Jz"}

OpsTargetOut == {"LeaLabel"}

\* builders marked #[must_use] or returning the Opnd to the caller
ReturningOps == Ops2Out \cup Ops1Out \cup Ops0Out \cup OpsTargetOut \cup {"CCall"}

CSelOps == {"CSelE", "CSelG", "CSelGE", "CSelL", "CSelLE", "CSelNE", "CSelNZ", "CSelZ"}

AluOps == {"Add", "Sub", "And", "Or", "Xor"}

ShiftOps == {"LShift", "RShift", "URShift"}

\* --------------------------------------------------------------- Assembler
new_with_label_names(label_names) ==
    [insns |-> <<>>, live_ranges |-> <<>>, label_names |-> label_names, err |-> ""]

AssemblerNew == new_with_label_names(<<>>)

Reads(o, idx) ==
    \/ o.kind = "InsnOut" /\ o.idx = idx
    \/ IsMemInsnOut(o) /\ o.base.n = idx

Sized(o) == o.kind \in {"InsnOut", "Mem", "Reg"}

\* the second loop of push_insn: 0 when no operand is sized, -1 for the panic
RECURSIVE WidthLoop(_, _, _)
WidthLoop(opnds, p, out_num_bits) ==
    IF p > Len(opnds) THEN out_num_bits
    ELSE IF ~Sized(opnds[p]) THEN WidthLoop(opnds, p + 1, out_num_bits)
    ELSE IF out_num_bits = 0 THEN WidthLoop(opnds, p + 1, opnds[p].num_bits)
    ELSE IF out_num_bits # opnds[p].num_bits THEN -1
    ELSE WidthLoop(opnds, p + 1, out_num_bits)

\* a width loop that keeps the width of the last sized operand
RECURSIVE WidthLoopLast(_, _, _)
WidthLoopLast(opnds, p, out_num_bits) ==
    IF p > Len(opnds) THEN out_num_bits
    ELSE IF ~Sized(opnds[p]) THEN WidthLoopLast(opnds, p + 1, out_num_bits)
    ELSE WidthLoopLast(opnds, p + 1, opnds[p].num_bits)

out_width_last(opnds) == WidthLoopLast(opnds, 1, 0)

out_width(opnds) == WidthLoop(opnds, 1, 0)

\* the first loop of push_insn
touch_live_ranges(live_ranges, opnds, insn_idx) ==
    [i \in 1..Len(live_ranges) |->
        IF \E p \in 1..Len(opnds) : Reads(opnds[p], i - 1)
        THEN insn_idx ELSE live_ranges[i]]

push_insn(a, insn) ==
    IF a.err # "" THEN a
    ELSE LET insn_idx == Len(a.insns)
             lr == touch_live_ranges(a.live_ranges, insn.opnds, insn_idx)
             w == out_width(insn.opnds)
         IN IF w = -1
            THEN [a EXCEPT !.live_ranges = lr, !.err = "operands of incompatible sizes"]
            ELSE [a EXCEPT
                    !.insns = Append(@, [insn EXCEPT
                                  !.out = InsnOut(insn_idx, IF w = 0 THEN 64 ELSE w)]),
                    !.live_ranges = Append(lr, insn_idx)]

\* a push_insn_parts that forgets the text and the target
push_insn_parts_bare(a, op, opnds, target, text) ==
    push_insn(a, Insn(op, opnds, TargetNone, ""))

push_insn_parts(a, op, opnds, target, text) == push_insn(a, Insn(op, opnds, target, text))

\* the Opnd the last push returned
out_opnd(a) == Last(a.insns).out

\* a label name is the sequence of its characters
LABEL == <<"l", "a", "b", "e", "l">>

contains(name, c) == \E i \in 1..Len(name) : name[i] = c

\* a new_label that takes any name
new_label_any_name(a, name) == [a EXCEPT !.label_names = Append(@, name)]

new_label(a, name) ==
    IF contains(name, " ")
    THEN [a EXCEPT !.err = "use underscores in label names, not spaces"]
    ELSE [a EXCEPT !.label_names = Append(@, name)]

\* write_label pushes the instruction first and then insns.len()
write_label(a, label) ==
    IF ~(label.kind = "Label" /\ label.n < Len(a.label_names))
    THEN [a EXCEPT !.err = "assertion failed: label_idx < label_names.len()"]
    ELSE [a EXCEPT
            !.insns = Append(@, Insn("Label", <<>>, label, "")),
            !.live_ranges = Append(@, Len(a.insns) + 1)]

\* ------------------------------------------------------------------ state
VARIABLES
    pc,       \* "build", "split", "alloc", "done", "abort"; "mem", "mem_done";
              \* "compile", "emit", "emitted"
    err,      \* the panic message once pc = "abort"
    asm,      \* the Assembler the builders write
    ret,      \* what the last builder or constructor call returned
    call,     \* the arguments of the last call
    split_index,    \* AssemblerDrainingIterator.index of x86_split
    split_indices,  \* AssemblerDrainingIterator.indices of x86_split
    split,    \* the Assembler x86_split writes
    regs,     \* the registers alloc_regs was given
    pool,     \* the pool bitmap of alloc_regs
    alloc_index,   \* AssemblerDrainingIterator.index of alloc_regs
    alloc,    \* the Assembler alloc_regs writes
    cb,       \* the CodeBlock x86_emit writes
    emit      \* the locals of x86_emit: insns_idx, gc_offsets, start_write_pos

vars ==
    <<pc, err, asm, ret, call, split_index, split_indices, split, regs, pool,
      alloc_index, alloc, cb, emit>>

\* no CodeBlock was handed over yet, x86_emit was not entered yet
NoCodeBlock == [write_pos |-> 0]

NoEmit == [insns_idx |-> 0]

NoCall == [fn |-> "none"]

Init ==
    /\ pc = "build"
    /\ err = ""
    /\ asm = AssemblerNew
    /\ ret = OpndNone
    /\ call = NoCall
    /\ split_index = 0
    /\ split_indices = <<>>
    /\ split = AssemblerNew
    /\ regs = <<>>
    /\ pool = 0
    /\ alloc_index = 0
    /\ alloc = AssemblerNew
    /\ cb = NoCodeBlock
    /\ emit = NoEmit

\* ---------------------------------------------------------------- builders
U_FF == Bits64(0, 0, 0, 255)

\* the InsnOut operands the caller holds
OutHandles(a) ==
    {a.insns[i].out : i \in {j \in 1..Len(a.insns) : a.insns[j].op \in ReturningOps}}

MemOfHandles(a) == {mem(64, h, 0) : h \in {g \in OutHandles(a) : g.num_bits = 64}}

Targets(a) == {CodePtr(1)} \cup {Label(i) : i \in 0..(Len(a.label_names) - 1)}

SeqsUpTo(S, n) == UNION {[1..k -> S] : k \in 0..n}

\* one builder call: push_insn on asm, the panic ending the compilation
Build(bound, op, opnds, target, text) ==
    /\ pc = "build"
    /\ Len(asm.insns) < bound
    /\ LET a == push_insn(asm, Insn(op, opnds, target, text))
       IN /\ asm' = a
          /\ err' = a.err
          /\ pc' = IF a.err = "" THEN "build" ELSE "abort"
          /\ ret' = IF a.err = "" THEN out_opnd(a) ELSE OpndNone
          /\ call' = [fn |-> "push_insn", op |-> op, opnds |-> opnds]
    /\ UNCHANGED <<split_index, split_indices, split, regs, pool, alloc_index, alloc, cb, emit>>

NewLabelTo(bound, name) ==
    /\ pc = "build"
    /\ Len(asm.label_names) < bound
    /\ LET a == new_label(asm, name)
       IN /\ asm' = a
          /\ err' = a.err
          /\ pc' = IF a.err = "" THEN "build" ELSE "abort"
          /\ ret' = IF a.err = "" THEN Label(Len(asm.label_names)) ELSE OpndNone
    /\ call' = [fn |-> "new_label", name |-> name]
    /\ UNCHANGED <<split_index, split_indices, split, regs, pool, alloc_index, alloc, cb, emit>>

NewLabel == NewLabelTo(MaxLabels, LABEL)

WriteLabelTo(bound, label) ==
    /\ pc = "build"
    /\ Len(asm.insns) < bound
    /\ LET a == write_label(asm, label)
       IN /\ asm' = a
          /\ err' = a.err
          /\ pc' = IF a.err = "" THEN "build" ELSE "abort"
    /\ ret' = OpndNone
    /\ call' = [fn |-> "write_label", label |-> label]
    /\ UNCHANGED <<split_index, split_indices, split, regs, pool, alloc_index, alloc, cb, emit>>

\* ------------------------------------------- the builders alone (SpecPush)
PushAtoms(a) ==
    {EC, Reg(0, 32), UImm(U_FF)} \cup OutHandles(a) \cup MemOfHandles(a)

\* the two-operand builders drawn: one of each family
PushOps2 == {"Add", "CSelZ", "LShift", "Cmp", "Mov", "Store"}

Push2 ==
    \E op \in PushOps2 : \E x, y \in PushAtoms(asm) :
        Build(MaxPushInsns, op, <<x, y>>, TargetNone, "")

Push1 ==
    \E op \in Ops1Out \cup Ops1NoOut : \E x \in PushAtoms(asm) :
        Build(MaxPushInsns, op, <<x>>, TargetNone, "")

Push0 ==
    \E op \in Ops0Out \cup Ops0NoOut : Build(MaxPushInsns, op, <<>>, TargetNone, "")

PushText ==
    \E op \in OpsText : Build(MaxPushInsns, op, <<>>, TargetNone, "text")

PushTarget ==
    \E op \in OpsTargetOut \cup OpsTargetNoOut : \E t \in Targets(asm) :
        Build(MaxPushInsns, op, <<>>, t, "")

PushCCall ==
    \E args \in SeqsUpTo(PushAtoms(asm), 2) :
        Build(MaxPushInsns, "CCall", args, FunPtr(1), "")

PushWriteLabel ==
    \E i \in 0..MaxLabels : WriteLabelTo(MaxPushInsns, Label(i))

NextPush ==
    \/ Push2
    \/ Push1
    \/ Push0
    \/ PushText
    \/ PushTarget
    \/ PushCCall
    \/ NewLabel
    \/ PushWriteLabel

SpecPush == Init /\ [][NextPush]_vars

\* --------------------------------------------------------------- x86_split
\* the builders x86_split calls on the Assembler it writes
load(a, opnd) == push_insn(a, Insn("Load", <<opnd>>, TargetNone, ""))

load_into(a, dest, opnd) == push_insn(a, Insn("LoadInto", <<dest, opnd>>, TargetNone, ""))

mov(a, dest, src) == push_insn(a, Insn("Mov", <<dest, src>>, TargetNone, ""))

not(a, opnd) == push_insn(a, Insn("Not", <<opnd>>, TargetNone, ""))

ccall(a, fptr, opnds) == push_insn(a, Insn("CCall", opnds, fptr, ""))

\* the Opnd returned by the builder that produced a
returned(a) == IF a.err # "" \/ a.insns = <<>> THEN OpndNone ELSE out_opnd(a)

IsImmediate(o) == o.kind \in {"UImm", "Imm"}

\* promotion test of a Value operand that drops the special-constant test
promote_value_size_only(v) == imm_num_bits(as_i64(v)) > 32

\* a Value operand is loaded unless it is a special constant of at most 32 bits
promote_value(v) == ~special_const_p(v) \/ imm_num_bits(as_i64(v)) > 32

\* the operand loop at the head of the loop body: [asm, opnds]
RECURSIVE map_opnds(_, _, _, _, _, _)
map_opnds(a, opnds, p, is_load, idxs, acc) ==
    IF p > Len(opnds) THEN [asm |-> a, opnds |-> acc]
    ELSE LET o == opnds[p]
         IN IF is_load
            THEN map_opnds(a, opnds, p + 1, is_load, idxs, Append(acc, map_index(o, idxs)))
            ELSE IF o.kind = "Value"
            THEN IF promote_value(o.val)
                 THEN LET a1 == load(a, map_index(o, idxs))
                      IN map_opnds(a1, opnds, p + 1, is_load, idxs, Append(acc, returned(a1)))
                 ELSE map_opnds(a, opnds, p + 1, is_load, idxs,
                                Append(acc, UImm(as_u64(o.val))))
            ELSE map_opnds(a, opnds, p + 1, is_load, idxs, Append(acc, map_index(o, idxs)))

\* `*x = asm.load(*x)` when cond: [asm, opnd]
load_if(a, cond, opnd) ==
    IF cond THEN [asm |-> load(a, opnd), opnd |-> returned(load(a, opnd))]
    ELSE [asm |-> a, opnd |-> opnd]

\* an ALU rule that never loads an InsnOut left operand
split_alu_out_in_place(a, insn, u, m, live_ranges, index) ==
    LET bothMem == u[1].kind = "Mem" /\ u[2].kind = "Mem"
        l == load_if(a, u[1].kind \in {"Mem", "Reg"}, m[1])
        r == load_if(l.asm, bothMem, m[2])
    IN push_insn(r.asm, [insn EXCEPT !.opnds = <<l.opnd, r.opnd>>])

\* Add, Sub, And, Or, Xor
split_alu(a, insn, u, m, live_ranges, index) ==
    LET bothMem == u[1].kind = "Mem" /\ u[2].kind = "Mem"
        memImm == u[1].kind = "Mem" /\ IsImmediate(u[2])
        loadLeft ==
            IF bothMem \/ memImm THEN TRUE
            ELSE IF u[1].kind = "InsnOut" THEN At(live_ranges, u[1].idx) > index
            ELSE u[1].kind \in {"Mem", "Reg"}
        l == load_if(a, loadLeft, m[1])
        r == load_if(l.asm, bothMem, m[2])
    IN push_insn(r.asm, [insn EXCEPT !.opnds = <<l.opnd, r.opnd>>])

\* Cmp, Test
\* a Cmp/Test rule that loads the left operand of two memory operands
split_cmp_loads_left(a, insn, m) ==
    LET l == load_if(a, m[1].kind = "Mem" /\ m[2].kind = "Mem", m[1])
    IN push_insn(l.asm, [insn EXCEPT !.opnds = <<l.opnd, m[2]>>])

split_cmp(a, insn, m) ==
    LET r == load_if(a, m[1].kind = "Mem" /\ m[2].kind = "Mem", m[2])
    IN push_insn(r.asm, [insn EXCEPT !.opnds = <<m[1], r.opnd>>])

\* a shift rule that shifts a register operand in place
split_shift_reg_in_place(a, insn, u, m, live_ranges, index) ==
    LET loadOpnd ==
            IF u[1].kind = "InsnOut" THEN At(live_ranges, u[1].idx) > index
            ELSE u[1].kind = "Mem"
        l == load_if(a, loadOpnd, m[1])
    IN push_insn(l.asm, [insn EXCEPT !.opnds = <<l.opnd, m[2]>>])

\* LShift, RShift, URShift
split_shift(a, insn, u, m, live_ranges, index) ==
    LET loadOpnd ==
            IF u[1].kind = "InsnOut" THEN At(live_ranges, u[1].idx) > index
            ELSE u[1].kind \in {"Mem", "Reg"}
        l == load_if(a, loadOpnd, m[1])
    IN push_insn(l.asm, [insn EXCEPT !.opnds = <<l.opnd, m[2]>>])

\* a CSel rule that looks at the truthy operand only
split_csel_truthy_only(a, insn, u, m, live_ranges, index) ==
    LET loadTruthy ==
            IF u[1].kind = "InsnOut" THEN At(live_ranges, u[1].idx) > index
            ELSE u[1].kind \in {"UImm", "Imm", "Value"}
        t == load_if(a, loadTruthy, m[1])
    IN push_insn(t.asm, [insn EXCEPT !.opnds = <<t.opnd, m[2]>>])

\* CSelZ .. CSelGE
split_csel(a, insn, u, m, live_ranges, index) ==
    LET loadTruthy ==
            IF u[1].kind = "InsnOut" THEN At(live_ranges, u[1].idx) > index
            ELSE u[1].kind \in {"UImm", "Imm", "Value"}
        t == load_if(a, loadTruthy, m[1])
        f == load_if(t.asm, IsImmediate(m[2]), m[2])
    IN push_insn(f.asm, [insn EXCEPT !.opnds = <<t.opnd, f.opnd>>])

\* a Mov rule that sizes a UImm source as the unsigned value it holds
split_mov_unsigned_size(a, m) ==
    LET loadSrc ==
            /\ m[1].kind = "Mem"
            /\ \/ m[2].kind = "Mem"
               \/ m[2].kind = "Imm" /\ imm_num_bits(m[2].val) > 32
               \/ m[2].kind = "UImm" /\ uimm_num_bits(m[2].val) > 32
        r == load_if(a, loadSrc, m[2])
    IN mov(r.asm, m[1], r.opnd)

\* Mov
split_mov(a, m) ==
    LET loadSrc ==
            /\ m[1].kind = "Mem"
            /\ \/ m[2].kind = "Mem"
               \/ IsImmediate(m[2]) /\ imm_num_bits(m[2].val) > 32
        r == load_if(a, loadSrc, m[2])
    IN mov(r.asm, m[1], r.opnd)

\* a Not arm that loads every instruction output, whatever its live range
split_not_load_any_out(a, u, m, live_ranges, index) ==
    LET l == load_if(a, u[1].kind \in {"InsnOut", "Mem", "Reg"}, m[1])
    IN not(l.asm, l.opnd)

split_not(a, u, m, live_ranges, index) ==
    LET loadOpnd ==
            IF u[1].kind = "InsnOut" THEN At(live_ranges, u[1].idx) > index
            ELSE u[1].kind \in {"Mem", "Reg"}
        l == load_if(a, loadOpnd, m[1])
    IN not(l.asm, l.opnd)

RECURSIVE load_args(_, _, _)
load_args(a, opnds, p) ==
    IF p > Len(opnds) THEN a
    ELSE load_args(load_into(a, C_ARG_OPNDS[p], opnds[p]), opnds, p + 1)

\* a CCall arm without the assertion: arguments beyond the registers are dropped
split_ccall_unchecked(a, insn, m) ==
    LET n == IF Len(m) <= Len(C_ARG_OPNDS) THEN Len(m) ELSE Len(C_ARG_OPNDS)
    IN ccall(load_args(a, SubSeq(m, 1, n), 1), insn.target, <<>>)

split_ccall(a, insn, m) ==
    IF ~(Len(m) <= Len(C_ARG_OPNDS))
    THEN [a EXCEPT !.err = "assertion failed: opnds.len() <= C_ARG_OPNDS.len()"]
    ELSE ccall(load_args(a, m, 1), insn.target, <<>>)

\* one iteration of the loop of x86_split, before map_insn_index
split_insn(a0, insn, live_ranges, index, idxs) ==
    LET mapped == map_opnds(a0, insn.opnds, 1, insn.op \in {"Load", "LoadInto"}, idxs, <<>>)
        a == mapped.asm
        m == mapped.opnds
        u == insn.opnds
    IN IF insn.op \in AluOps THEN split_alu(a, insn, u, m, live_ranges, index)
       ELSE IF insn.op \in {"Cmp", "Test"} THEN split_cmp(a, insn, m)
       ELSE IF insn.op \in ShiftOps THEN split_shift(a, insn, u, m, live_ranges, index)
       ELSE IF insn.op \in CSelOps THEN split_csel(a, insn, u, m, live_ranges, index)
       ELSE IF insn.op = "Mov" THEN split_mov(a, m)
       ELSE IF insn.op = "Not" THEN split_not(a, u, m, live_ranges, index)
       ELSE IF insn.op = "CCall" THEN split_ccall(a, insn, m)
       ELSE push_insn(a, [insn EXCEPT !.opnds = m])

\* an index table that records the first instruction written for the old one
map_insn_index_first(idxs, a) == Append(idxs, IF idxs = <<>> THEN 0 ELSE Last(idxs) + 1)

\* AssemblerDrainingIterator::map_insn_index
map_insn_index(idxs, a) == Append(idxs, Len(a.insns) - 1)

\* x86_split as a whole: the loop over the old instructions from index k on
RECURSIVE x86_split_from(_, _, _, _)
x86_split_from(old, new, idxs, k) ==
    IF k >= Len(old.insns) \/ new.err # "" THEN new
    ELSE LET a == split_insn(new, At(old.insns, k), old.live_ranges, k, idxs)
         IN x86_split_from(old, a,
                           IF a.err = "" THEN map_insn_index(idxs, a) ELSE idxs, k + 1)

x86_split(old) == x86_split_from(old, new_with_label_names(old.label_names), <<>>, 0)

\* compile_with_regs enters x86_split
StartSplit ==
    /\ pc = "build"
    /\ pc' = "split"
    /\ split' = new_with_label_names(asm.label_names)
    /\ split_index' = 0
    /\ split_indices' = <<>>
    /\ call' = [fn |-> "x86_split"]
    /\ UNCHANGED <<err, asm, ret, regs, pool, alloc_index, alloc, cb, emit>>

\* one iteration of `while let Some((index, insn)) = iterator.next_unmapped()`
SplitStep ==
    /\ pc = "split"
    /\ split_index < Len(asm.insns)
    /\ LET a == split_insn(split, At(asm.insns, split_index), asm.live_ranges,
                         split_index, split_indices)
       IN /\ split' = a
          /\ err' = a.err
          /\ pc' = IF a.err = "" THEN "split" ELSE "abort"
          /\ split_indices' = IF a.err = "" THEN map_insn_index(split_indices, a) ELSE split_indices
    /\ split_index' = split_index + 1
    /\ UNCHANGED <<asm, ret, call, regs, pool, alloc_index, alloc, cb, emit>>

\* -------------------------------------------------------------- alloc_regs
Pow2(i) == 2 ^ i

BitSet(bitmap, i) == (bitmap \div Pow2(i)) % 2 = 1

\* regs.iter().position(|elem| elem.reg_no == reg.reg_no), -1 for None
reg_position(rs, reg) ==
    IF \E i \in 1..Len(rs) : rs[i].reg_no = reg.reg_no
    THEN (CHOOSE i \in 1..Len(rs) :
            /\ rs[i].reg_no = reg.reg_no
            /\ \A j \in 1..(i - 1) : rs[j].reg_no # reg.reg_no) - 1
    ELSE -1

\* an alloc_reg that scans the pool from its last register down
alloc_reg_highest(bitmap, rs) ==
    IF \E i \in 0..(Len(rs) - 1) : ~BitSet(bitmap, i)
    THEN LET i == CHOOSE k \in 0..(Len(rs) - 1) :
                      /\ ~BitSet(bitmap, k)
                      /\ \A j \in (k + 1)..(Len(rs) - 1) : BitSet(bitmap, j)
         IN [pool |-> bitmap + Pow2(i), reg |-> At(rs, i), err |-> ""]
    ELSE [pool |-> bitmap, reg |-> OpndNone, err |-> "Register spill not supported"]

\* an alloc_reg that hands out the first register again when none is free
alloc_reg_wrap(bitmap, rs) ==
    IF \E i \in 0..(Len(rs) - 1) : ~BitSet(bitmap, i)
    THEN LET i == CHOOSE k \in 0..(Len(rs) - 1) :
                      /\ ~BitSet(bitmap, k)
                      /\ \A j \in 0..(k - 1) : BitSet(bitmap, j)
         IN [pool |-> bitmap + Pow2(i), reg |-> At(rs, i), err |-> ""]
    ELSE [pool |-> bitmap, reg |-> IF rs = <<>> THEN RAX_REG ELSE rs[1], err |-> ""]

\* [pool, reg, err]: the first register whose bit is clear
alloc_reg(bitmap, rs) ==
    IF \E i \in 0..(Len(rs) - 1) : ~BitSet(bitmap, i)
    THEN LET i == CHOOSE k \in 0..(Len(rs) - 1) :
                      /\ ~BitSet(bitmap, k)
                      /\ \A j \in 0..(k - 1) : BitSet(bitmap, j)
         IN [pool |-> bitmap + Pow2(i), reg |-> At(rs, i), err |-> ""]
    ELSE [pool |-> bitmap, reg |-> OpndNone, err |-> "Register spill not supported"]

\* a take_reg that hands the register out without marking it in the pool
take_reg_unmarked(bitmap, rs, reg) ==
    [pool |-> bitmap, reg |-> reg, err |-> ""]

\* [pool, reg, err]: a specific register
take_reg(bitmap, rs, reg) ==
    LET i == reg_position(rs, reg)
    IN IF i = -1 THEN [pool |-> bitmap, reg |-> reg, err |-> ""]
       ELSE IF BitSet(bitmap, i)
       THEN [pool |-> bitmap, reg |-> reg, err |-> "register already allocated"]
       ELSE [pool |-> bitmap + Pow2(i), reg |-> reg, err |-> ""]

dealloc_reg(bitmap, rs, reg) ==
    LET i == reg_position(rs, reg)
    IN IF i # -1 /\ BitSet(bitmap, i) THEN bitmap - Pow2(i) ELSE bitmap

\* a reclaim that looks at direct InsnOut operands only
RECURSIVE reclaim_direct_only(_, _, _, _, _, _, _)
reclaim_direct_only(bitmap, rs, a, opnds, p, live_ranges, index) ==
    IF p > Len(opnds) THEN [pool |-> bitmap, err |-> ""]
    ELSE IF opnds[p].kind = "InsnOut" /\ At(live_ranges, opnds[p].idx) = index
    THEN reclaim_direct_only(dealloc_reg(bitmap, rs, At(a.insns, opnds[p].idx).out),
                             rs, a, opnds, p + 1, live_ranges, index)
    ELSE reclaim_direct_only(bitmap, rs, a, opnds, p + 1, live_ranges, index)

\* the first loop of the body: [pool, err]
RECURSIVE reclaim(_, _, _, _, _, _, _)
reclaim(bitmap, rs, a, opnds, p, live_ranges, index) ==
    IF p > Len(opnds) THEN [pool |-> bitmap, err |-> ""]
    ELSE LET o == opnds[p]
             start_index == IF o.kind = "InsnOut" THEN o.idx ELSE o.base.n
         IN IF ~(o.kind = "InsnOut" \/ IsMemInsnOut(o))
            THEN reclaim(bitmap, rs, a, opnds, p + 1, live_ranges, index)
            ELSE IF ~(start_index < index)
            THEN [pool |-> bitmap, err |-> "assertion failed: start_index < index"]
            ELSE IF At(live_ranges, start_index) # index
            THEN reclaim(bitmap, rs, a, opnds, p + 1, live_ranges, index)
            ELSE IF At(a.insns, start_index).out.kind = "Reg"
            THEN reclaim(dealloc_reg(bitmap, rs, At(a.insns, start_index).out),
                         rs, a, opnds, p + 1, live_ranges, index)
            ELSE [pool |-> bitmap, err |-> "no register allocated for insn"]

\* an allocator that never reuses the register of an operand
reuse_candidate_none(a, insn, live_ranges, index) == OpndNone

\* the register of the first operand when that operand dies here, else None
reuse_candidate(a, insn, live_ranges, index) ==
    IF /\ Len(insn.opnds) > 0
       /\ insn.opnds[1].kind = "InsnOut"
       /\ At(live_ranges, insn.opnds[1].idx) = index
       /\ At(a.insns, insn.opnds[1].idx).out.kind = "Reg"
    THEN At(a.insns, insn.opnds[1].idx).out
    ELSE OpndNone

\* a block that picks a register for an output nobody reads as well
assign_out_unused_too(bitmap, rs, a, insn, live_ranges, index) ==
    IF insn.op = "CCall" THEN take_reg(bitmap, rs, C_RET_REG)
    ELSE IF reuse_candidate(a, insn, live_ranges, index) # OpndNone
    THEN take_reg(bitmap, rs, reuse_candidate(a, insn, live_ranges, index))
    ELSE IF insn.op = "LiveReg"
    THEN IF Len(insn.opnds) > 0 /\ insn.opnds[1].kind = "Reg"
         THEN take_reg(bitmap, rs, insn.opnds[1])
         ELSE [pool |-> bitmap, reg |-> OpndNone, err |-> "trying to unwrap into reg"]
    ELSE alloc_reg(bitmap, rs)

\* the block that picks out_reg: [pool, reg, err]
assign_out(bitmap, rs, a, insn, live_ranges, index) ==
    IF At(live_ranges, index) = index
    THEN [pool |-> bitmap, reg |-> OpndNone, err |-> ""]
    ELSE IF insn.op = "CCall" THEN take_reg(bitmap, rs, C_RET_REG)
    ELSE IF reuse_candidate(a, insn, live_ranges, index) # OpndNone
    THEN take_reg(bitmap, rs, reuse_candidate(a, insn, live_ranges, index))
    ELSE IF insn.op = "LiveReg"
    THEN IF Len(insn.opnds) > 0 /\ insn.opnds[1].kind = "Reg"
         THEN take_reg(bitmap, rs, insn.opnds[1])
         ELSE [pool |-> bitmap, reg |-> OpndNone, err |-> "trying to unwrap into reg"]
    ELSE alloc_reg(bitmap, rs)

\* an operand rewrite that leaves memory bases as they are
reg_opnd_keep_mem(a, o) ==
    IF o.kind = "InsnOut" THEN At(a.insns, o.idx).out ELSE o

\* the closure of the map that replaces InsnOut operands; Panic for unwrap_reg
reg_opnd(a, o) ==
    IF o.kind = "InsnOut" THEN At(a.insns, o.idx).out
    ELSE IF IsMemInsnOut(o)
    THEN IF At(a.insns, o.base.n).out.kind = "Reg"
         THEN Mem(MemBaseReg(At(a.insns, o.base.n).out.reg_no), o.disp, o.num_bits)
         ELSE Panic("trying to unwrap into reg")
    ELSE o

reg_opnds(a, opnds) == [p \in 1..Len(opnds) |-> reg_opnd(a, opnds[p])]

\* "Set the output register for this instruction"
set_out(a, out_reg) ==
    IF a.err # "" THEN a
    ELSE LET n == Len(a.insns)
             o == IF out_reg.kind = "Reg"
                  THEN sub_reg(out_reg, rm_num_bits(a.insns[n].out))
                  ELSE out_reg
         IN [a EXCEPT !.insns[n].out = o]

\* a CCall check that never fails
ccall_pool_unchecked(op, bitmap) == FALSE

\* `assert_eq!(pool, 0)` at a CCall fails
ccall_pool_in_use(op, bitmap) == op = "CCall" /\ bitmap # 0

\* one iteration of the loop of alloc_regs: [asm, pool]
alloc_insn(a, bitmap, rs, insn, live_ranges, index) ==
    LET rc == reclaim(bitmap, rs, a, insn.opnds, 1, live_ranges, index)
        ao == assign_out(rc.pool, rs, a, insn, live_ranges, index)
        ro == reg_opnds(a, insn.opnds)
    IN IF rc.err # "" THEN [asm |-> [a EXCEPT !.err = rc.err], pool |-> rc.pool]
       ELSE IF ccall_pool_in_use(insn.op, rc.pool)
       THEN [asm |-> [a EXCEPT !.err = "register lives past C function call"],
             pool |-> rc.pool]
       ELSE IF ao.err # "" THEN [asm |-> [a EXCEPT !.err = ao.err], pool |-> ao.pool]
       ELSE IF \E p \in 1..Len(ro) : ro[p].kind = "Panic"
       THEN [asm |-> [a EXCEPT !.err = "trying to unwrap into reg"], pool |-> ao.pool]
       ELSE [asm |-> set_out(push_insn_parts(a, insn.op, ro, insn.target, insn.text), ao.reg),
             pool |-> ao.pool]

\* compile_with_num_regs hands the first num_regs registers to alloc_regs
StartAlloc ==
    /\ pc = "split"
    /\ split_index = Len(asm.insns)
    /\ \E num_regs \in 1..Len(get_alloc_regs) :
          regs' = SubSeq(get_alloc_regs, 1, num_regs)
    /\ pc' = "alloc"
    /\ pool' = 0
    /\ alloc' = new_with_label_names(split.label_names)
    /\ alloc_index' = 0
    /\ call' = [fn |-> "alloc_regs"]
    /\ UNCHANGED <<err, asm, ret, split_index, split_indices, split, cb, emit>>

\* one iteration of `while let Some((index, insn)) = iterator.next_unmapped()`
AllocStep ==
    /\ pc = "alloc"
    /\ alloc_index < Len(split.insns)
    /\ LET r == alloc_insn(alloc, pool, regs, At(split.insns, alloc_index),
                           split.live_ranges, alloc_index)
       IN /\ alloc' = r.asm
          /\ pool' = r.pool
          /\ err' = r.asm.err
          /\ pc' = IF r.asm.err = "" THEN "alloc" ELSE "abort"
    /\ alloc_index' = alloc_index + 1
    /\ UNCHANGED <<asm, ret, call, split_index, split_indices, split, regs, cb, emit>>

\* the assertion after the loop
AllocEnd ==
    /\ pc = "alloc"
    /\ alloc_index = Len(split.insns)
    /\ pc' = IF pool = 0 THEN "done" ELSE "abort"
    /\ err' = IF pool = 0 THEN "" ELSE "Expected all registers to be returned to the pool"
    /\ UNCHANGED <<asm, ret, call, split_index, split_indices, split, regs, pool,
                   alloc_index, alloc, cb, emit>>

\* ------------------------------------------------ the pipeline (Spec)
\* operands the caller passes: a VM register, a small immediate, the outputs
\* it holds and memory based on them
Atoms(a) == {EC, UImm(U_FF)} \cup OutHandles(a) \cup MemOfHandles(a)

RightAtoms(a) == {UImm(U_FF)} \cup OutHandles(a)

BuildOps2 == {"Add", "Cmp"}

Build2 ==
    \E op \in BuildOps2 : \E x \in Atoms(asm), y \in RightAtoms(asm) :
        Build(MaxInsns, op, <<x, y>>, TargetNone, "")

BuildLoad ==
    \E x \in Atoms(asm) : Build(MaxInsns, "Load", <<x>>, TargetNone, "")

BuildLiveReg == Build(MaxInsns, "LiveReg", <<RAX_REG>>, TargetNone, "")

BuildText == Build(MaxInsns, "Comment", <<>>, TargetNone, "text")

BuildCCall ==
    \E args \in SeqsUpTo(OutHandles(asm), 1) :
        Build(MaxInsns, "CCall", args, FunPtr(1), "")

\* labels are created before the first instruction
BuildNewLabel == asm.insns = <<>> /\ NewLabel

BuildWriteLabel ==
    \E i \in 0..(MaxLabels - 1) : WriteLabelTo(MaxInsns, Label(i))

Next ==
    \/ Build2
    \/ BuildLoad
    \/ BuildLiveReg
    \/ BuildText
    \/ BuildCCall
    \/ BuildNewLabel
    \/ BuildWriteLabel
    \/ StartSplit
    \/ SplitStep
    \/ StartAlloc
    \/ AllocStep
    \/ AllocEnd

Spec == Init /\ [][Next]_vars

\* ------------------------------------------------- claims on the builders
Readers(a, i) ==
    {j \in 0..(Len(a.insns) - 1) :
        \E p \in 1..Len(At(a.insns, j).opnds) : Reads(At(a.insns, j).opnds[p], i)}

MaxOf(S) == CHOOSE m \in S : \A n \in S : n <= m

\* C2: after any sequence of builder calls the two vectors are parallel and
\* every live range is in range: |insns| = |live_ranges| and
\* i <= live_ranges[i] < |insns| for every i.
C2_LiveRangesInRange ==
    pc = "build" =>
        /\ Len(asm.insns) = Len(asm.live_ranges)
        /\ \A i \in 0..(Len(asm.insns) - 1) :
              /\ i <= At(asm.live_ranges, i)
              /\ At(asm.live_ranges, i) < Len(asm.insns)

\* C3: after any sequence of builder calls live_ranges[i] is the largest
\* index of an instruction reading InsnOut(i), directly or as a Mem base, and
\* i itself when nothing reads it, Label instructions included.
C3_LiveRangeIsLastReader ==
    pc = "build" =>
        \A i \in 0..(Len(asm.insns) - 1) :
            /\ i < Len(asm.live_ranges)
            /\ At(asm.live_ranges, i) = MaxOf({i} \cup Readers(asm, i))

SizedWidths(opnds) == {opnds[p].num_bits : p \in {q \in 1..Len(opnds) : Sized(opnds[q])}}

PushStep == pc = "build" /\ call'.fn = "push_insn"

\* C7: push_insn aborts, appending nothing, when two Reg/Mem/InsnOut operands
\* differ in num_bits; when they agree it returns an InsnOut of that width for
\* the new index; with no such operand it returns one of width 64.
C7_PushWidth ==
    [][PushStep =>
        LET W == SizedWidths(call'.opnds)
        IN /\ Cardinality(W) > 1 =>
                 /\ pc' = "abort"
                 /\ err' = "operands of incompatible sizes"
                 /\ asm'.insns = asm.insns
           /\ Cardinality(W) = 1 =>
                 /\ pc' = "build"
                 /\ Len(asm'.insns) = Len(asm.insns) + 1
                 /\ \E w \in W : ret' = InsnOut(Len(asm.insns), w)
                 /\ Last(asm'.insns).out = ret'
           /\ W = {} =>
                 /\ pc' = "build"
                 /\ Len(asm'.insns) = Len(asm.insns) + 1
                 /\ ret' = InsnOut(Len(asm.insns), 64)]_vars

\* a push of two sized operands that agree on 32 bits returned a 32-bit InsnOut
C7_Witness ==
    /\ pc = "build"
    /\ call.fn = "push_insn"
    /\ Len(call.opnds) = 2
    /\ Sized(call.opnds[1]) /\ Sized(call.opnds[2])
    /\ ret = InsnOut(Len(asm.insns) - 1, 32)

\* ------------------------------------------------ claims on alloc_regs
InPool(o) == o.kind = "Reg" /\ reg_position(regs, o) # -1

\* C1: once x86_split and alloc_regs have run, no InsnOut is left: every
\* InsnOut(j) operand is the Reg given to instruction j, every Mem based on
\* InsnOut(j) is based on that Reg, and every out is a Reg or None.
C1_NoInsnOutAfterAlloc ==
    pc = "done" =>
        /\ Len(alloc.insns) = Len(split.insns)
        /\ \A k \in 1..Len(alloc.insns) :
              /\ alloc.insns[k].out.kind \in {"Reg", "None"}
              /\ Len(alloc.insns[k].opnds) = Len(split.insns[k].opnds)
              /\ \A p \in 1..Len(alloc.insns[k].opnds) :
                    LET old == split.insns[k].opnds[p]
                        new == alloc.insns[k].opnds[p]
                    IN /\ new.kind # "InsnOut"
                       /\ ~IsMemInsnOut(new)
                       /\ old.kind = "InsnOut" =>
                             /\ new.kind = "Reg"
                             /\ new = At(alloc.insns, old.idx).out
                       /\ IsMemInsnOut(old) =>
                             /\ At(alloc.insns, old.base.n).out.kind = "Reg"
                             /\ new = Mem(MemBaseReg(At(alloc.insns, old.base.n).out.reg_no),
                                          old.disp, old.num_bits)

\* an allocation completed on a list that read outputs directly and as a base
C1_Witness ==
    /\ pc = "done"
    /\ \E k \in 1..Len(split.insns) : \E p \in 1..Len(split.insns[k].opnds) :
          IsMemInsnOut(split.insns[k].opnds[p])
    /\ \E k \in 1..Len(split.insns) : \E p \in 1..Len(split.insns[k].opnds) :
          split.insns[k].opnds[p].kind = "InsnOut"

\* C4: alloc_regs inserts, removes and reorders nothing: as many instructions
\* out as in, instruction k keeping its opcode, target and text.
C4_AllocKeepsInstructions ==
    pc = "done" =>
        /\ Len(alloc.insns) = Len(split.insns)
        /\ \A k \in 1..Len(alloc.insns) :
              /\ alloc.insns[k].op = split.insns[k].op
              /\ alloc.insns[k].target = split.insns[k].target
              /\ alloc.insns[k].text = split.insns[k].text

\* an allocation completed on a list holding a text, a target and an inserted Load
C4_Witness ==
    /\ pc = "done"
    /\ Len(split.insns) > Len(asm.insns)
    /\ \E k \in 1..Len(alloc.insns) : alloc.insns[k].text # ""
    /\ \E k \in 1..Len(alloc.insns) : alloc.insns[k].target # TargetNone

\* C5: when alloc_regs reaches the end of the split list without aborting,
\* the pool bitmap is zero: the final assertion never fires.
C5_PoolEmptyAtEnd ==
    /\ err # "Expected all registers to be returned to the pool"
    /\ (pc = "alloc" /\ alloc_index = Len(split.insns)) => pool = 0

\* the walk ended after two pool registers were handed out and returned
C5_Witness ==
    /\ pc = "done"
    /\ \E j, k \in 1..Len(alloc.insns) :
          /\ InPool(alloc.insns[j].out)
          /\ InPool(alloc.insns[k].out)
          /\ alloc.insns[j].out.reg_no # alloc.insns[k].out.reg_no

\* values holding a pool register whose last use comes after instruction k
LiveAcross(k) ==
    {i \in 0..(Len(alloc.insns) - 1) :
        /\ i < k
        /\ InPool(At(alloc.insns, i).out)
        /\ At(split.live_ranges, i) > k}

AtCCall == pc = "alloc" /\ alloc_index < Len(split.insns)
               /\ At(split.insns, alloc_index).op = "CCall"

\* C6: alloc_regs aborts at a CCall while a pool register is still held by a
\* value used later; so in a returned Assembler no value holding a pool
\* register is live from before a CCall to after it.
C6_NothingLiveAcrossCCall ==
    /\ [][(AtCCall /\ LiveAcross(alloc_index) # {}) =>
            (pc' = "abort" /\ err' = "register lives past C function call")]_vars
    /\ [](pc = "done" =>
            \A k \in 0..(Len(alloc.insns) - 1) :
                At(alloc.insns, k).op = "CCall" => LiveAcross(k) = {})

\* the allocator stopped at a CCall because a value was live across it
C6_Witness ==
    /\ pc = "abort"
    /\ err = "register lives past C function call"
    /\ At(split.insns, alloc_index - 1).op = "CCall"

\* ------------------------------------------------------ Opnd::mem (SpecMem)
MemWidths == {8, 16, 32, 64}

MemBases ==
    {EC, RAX_REG, Reg(0, 32), UImm(U_FF)}
        \cup {InsnOut(i, 64) : i \in 0..MaxMemIdx} \cup {InsnOut(0, 32)}

MemDisps == {-8, 0, 8, 2147483647}

InitMem ==
    /\ pc = "mem"
    /\ call \in {[fn |-> "mem", num_bits |-> n, base |-> b, disp |-> d] :
                    n \in MemWidths, b \in MemBases, d \in MemDisps}
    /\ err = ""
    /\ asm = AssemblerNew
    /\ ret = OpndNone
    /\ split_index = 0
    /\ split_indices = <<>>
    /\ split = AssemblerNew
    /\ regs = <<>>
    /\ pool = 0
    /\ alloc_index = 0
    /\ alloc = AssemblerNew
    /\ cb = NoCodeBlock
    /\ emit = NoEmit

MemCall ==
    /\ pc = "mem"
    /\ LET r == mem(call.num_bits, call.base, call.disp)
       IN /\ ret' = r
          /\ pc' = IF r.kind = "Panic" THEN "abort" ELSE "mem_done"
          /\ err' = IF r.kind = "Panic" THEN r.msg ELSE ""
    /\ UNCHANGED <<asm, call, split_index, split_indices, split, regs, pool,
                   alloc_index, alloc, cb, emit>>

NextMem == MemCall

SpecMem == InitMem /\ [][NextMem]_vars

\* C8: Opnd::mem(n, base, d) on a 64-bit Reg or InsnOut base returns a Mem
\* whose rm_num_bits() is n and whose disp is d; on a Reg or InsnOut base of
\* another width it aborts.
C8_MemKeepsWidth ==
    (pc \in {"mem_done", "abort"} /\ call.base.kind \in {"Reg", "InsnOut"}) =>
        IF call.base.num_bits = 64
        THEN /\ pc = "mem_done"
             /\ ret.kind = "Mem"
             /\ rm_num_bits(ret) = call.num_bits
             /\ ret.disp = call.disp
        ELSE pc = "abort"

\* ------------------------------------- Value operands in x86_split (SpecValue)
V_HEAP == Bits64(0, 0, 16, 0)

V_FIXNUM_1 == Bits64(0, 0, 0, 3)

V_FIXNUM_BIG == Bits64(0, 1, 0, 3)

V_FIXNUM_NEG == Bits64(65535, 65535, 65535, 65535)

ValueAtoms == {Value(V_HEAP), Value(V_FIXNUM_1), Value(V_FIXNUM_BIG), Value(V_FIXNUM_NEG)}

VAtoms(a) == ValueAtoms \cup {mem(64, EC, 0)} \cup OutHandles(a)

ValueOps2 == {"Add", "Cmp", "CSelZ", "Mov", "LShift", "Store"}

ValueOps1 == {"Not", "Load", "CPush"}

BuildV2 ==
    \E op \in ValueOps2 : \E x, y \in VAtoms(asm) :
        Build(MaxValueInsns, op, <<x, y>>, TargetNone, "")

BuildV1 ==
    \E op \in ValueOps1 : \E x \in VAtoms(asm) :
        Build(MaxValueInsns, op, <<x>>, TargetNone, "")

BuildVCCall ==
    \E x \in VAtoms(asm) : Build(MaxValueInsns, "CCall", <<x>>, FunPtr(1), "")

NextValue ==
    \/ BuildV2
    \/ BuildV1
    \/ BuildVCCall
    \/ StartSplit
    \/ SplitStep

SpecValue == Init /\ [][NextValue]_vars

\* the old instructions x86_split has finished
SplitDone == IF pc = "split" THEN 0..(split_index - 1) ELSE {}

\* new indices of the instructions written for old instruction k
FirstNew(k) == IF k = 0 THEN 0 ELSE At(split_indices, k - 1) + 1

LastNew(k) == At(split_indices, k)

\* where operand p (from 1) of old instruction k ended up: the operand of the
\* instruction that stands for k, or of the LoadInto of argument p of a CCall
FinalOpnd(k, p) ==
    IF At(asm.insns, k).op = "CCall"
    THEN At(split.insns, LastNew(k) - Len(At(asm.insns, k).opnds) + (p - 1)).opnds[2]
    ELSE At(split.insns, LastNew(k)).opnds[p]

IsInsertedLoad(k, j) ==
    /\ FirstNew(k) <= j
    /\ j < LastNew(k)
    /\ At(split.insns, j).op = "Load"

InsertedLoadOf(k, o) ==
    \E j \in FirstNew(k)..(LastNew(k) - 1) :
        IsInsertedLoad(k, j) /\ At(split.insns, j).opnds = <<o>>

NeedsLoad(v) == ~special_const_p(v) \/ imm_num_bits(as_i64(v)) > 32

ValueOperand(k, p) ==
    /\ At(asm.insns, k).op \notin {"Load", "LoadInto"}
    /\ At(asm.insns, k).opnds[p].kind = "Value"

PromotedIsLoaded(k, p) ==
    LET v == At(asm.insns, k).opnds[p].val
    IN NeedsLoad(v) =>
          /\ InsertedLoadOf(k, Value(v))
          /\ FinalOpnd(k, p).kind = "InsnOut"
          /\ IsInsertedLoad(k, FinalOpnd(k, p).idx)

SmallStaysUImm(k, p) ==
    LET v == At(asm.insns, k).opnds[p].val
    IN ~NeedsLoad(v) =>
          /\ FinalOpnd(k, p) = UImm(as_u64(v))
          /\ ~InsertedLoadOf(k, UImm(as_u64(v)))
          /\ ~InsertedLoadOf(k, Value(v))

SmallLoadedAsUImm(k, p) ==
    LET v == At(asm.insns, k).opnds[p].val
    IN ~NeedsLoad(v) =>
          /\ InsertedLoadOf(k, UImm(as_u64(v)))
          /\ ~InsertedLoadOf(k, Value(v))
          /\ FinalOpnd(k, p).kind = "InsnOut"
          /\ At(split.insns, FinalOpnd(k, p).idx).opnds = <<UImm(as_u64(v))>>

\* C9 as stated: in every instruction but Load/LoadInto a Value operand is
\* replaced by the output of an inserted Load when it is not a special
\* constant or needs more than 32 signed bits, and otherwise becomes
\* UImm(v.as_u64()) with no Load inserted.
C9_ValueOperands ==
    \A k \in SplitDone : \A p \in 1..Len(At(asm.insns, k).opnds) :
        ValueOperand(k, p) => PromotedIsLoaded(k, p) /\ SmallStaysUImm(k, p)

\* C9 amended: the same, except that the truthy and falsy operands of a CSel*
\* are loaded after becoming UImm(v.as_u64()).
C9_ValueOperandsButCSel ==
    \A k \in SplitDone : \A p \in 1..Len(At(asm.insns, k).opnds) :
        ValueOperand(k, p) =>
            /\ PromotedIsLoaded(k, p)
            /\ IF At(asm.insns, k).op \in CSelOps
               THEN SmallLoadedAsUImm(k, p)
               ELSE SmallStaysUImm(k, p)

\* the splitter finished a CSel* on a small special constant and another
\* instruction on a promoted and an unpromoted Value
C9_Witness ==
    /\ \E k \in SplitDone :
          /\ At(asm.insns, k).op \in CSelOps
          /\ At(asm.insns, k).opnds[2] = Value(V_FIXNUM_1)
    /\ \E k \in SplitDone :
          /\ At(asm.insns, k).op \notin CSelOps \cup {"Load"}
          /\ Len(At(asm.insns, k).opnds) = 2
          /\ At(asm.insns, k).opnds[1] = Value(V_HEAP)
          /\ At(asm.insns, k).opnds[2] = Value(V_FIXNUM_NEG)

\* --------------------------------------------- CCall in x86_split (SpecCCall)
CallAtoms(a) == {UImm(U_FF)} \cup OutHandles(a)

BuildCLoad == Build(MaxCallInsns, "Load", <<EC>>, TargetNone, "")

BuildCCallN ==
    \E args \in SeqsUpTo(CallAtoms(asm), MaxArgs) :
        Build(MaxCallInsns, "CCall", args, FunPtr(1), "")

NextCCall ==
    \/ BuildCLoad
    \/ BuildCCallN
    \/ StartSplit
    \/ SplitStep

SpecCCall == Init /\ [][NextCCall]_vars

\* reg_no of the System V argument registers rdi, rsi, rdx, rcx, r8, r9
SysVArgRegNos == <<7, 6, 2, 1, 8, 9>>

Remapped(o) == IF o.kind = "InsnOut" THEN InsnOut(At(split_indices, o.idx), o.num_bits) ELSE o

AtSplitCCall ==
    pc = "split" /\ split_index < Len(asm.insns) /\ At(asm.insns, split_index).op = "CCall"

\* C10: x86_split turns a CCall of n arguments into n LoadInto, the i-th
\* moving argument i into the i-th argument register, and then a CCall without
\* operands; 6 arguments are accepted, 7 abort.
C10_CCallLowering ==
    /\ [](\A k \in SplitDone :
            At(asm.insns, k).op = "CCall" =>
                LET args == At(asm.insns, k).opnds
                    n == Len(args)
                    last == LastNew(k)
                IN /\ n <= 6
                   /\ last - n = FirstNew(k)
                   /\ At(split.insns, last).op = "CCall"
                   /\ At(split.insns, last).opnds = <<>>
                   /\ At(split.insns, last).target = At(asm.insns, k).target
                   /\ \A i \in 1..n :
                         LET li == At(split.insns, last - n + (i - 1))
                         IN /\ li.op = "LoadInto"
                            /\ li.opnds = <<Reg(SysVArgRegNos[i], 64), Remapped(args[i])>>)
    /\ [][AtSplitCCall =>
            IF Len(At(asm.insns, split_index).opnds) <= 6
            THEN pc' = "split"
            ELSE pc' = "abort"
                 /\ err' = "assertion failed: opnds.len() <= C_ARG_OPNDS.len()"]_vars

\* the splitter lowered a CCall of exactly six arguments
C10_Witness ==
    \E k \in SplitDone :
        /\ At(asm.insns, k).op = "CCall"
        /\ Len(At(asm.insns, k).opnds) = 6
        /\ \E i \in 1..6 : At(asm.insns, k).opnds[i].kind = "InsnOut"

\* ------------------------------------------- splitting twice (SpecIdem)
IdemLeft(a) == {EC, mem(64, EC, 0), Value(V_FIXNUM_1)} \cup OutHandles(a)

IdemRight(a) == {UImm(U_FF), mem(64, EC, 0)} \cup OutHandles(a)

IdemOps2 == {"Add", "CSelZ", "Mov"}

IdemOps1 == {"Not"}

BuildI2 ==
    \E op \in IdemOps2 : \E l \in IdemLeft(asm) : \E r \in IdemRight(asm) :
        Build(MaxIdemInsns, op, <<l, r>>, TargetNone, "")

BuildI1 ==
    \E op \in IdemOps1 : \E o \in IdemLeft(asm) :
        Build(MaxIdemInsns, op, <<o>>, TargetNone, "")

NextIdem ==
    \/ BuildI2
    \/ BuildI1
    \/ StartSplit
    \/ SplitStep

SpecIdem == Init /\ [][NextIdem]_vars

SplitComplete == pc = "split" /\ split_index = Len(asm.insns)

\* C11: splitting the output of x86_split again gives the same Assembler: no
\* further Load is inserted and every instruction keeps its opcode, operands
\* and output, at the same index.
C11_SplitIdempotent ==
    SplitComplete =>
        /\ x86_split(split).err = ""
        /\ x86_split(split).insns = split.insns
        /\ x86_split(split).live_ranges = split.live_ranges

\* a finished split that inserted Loads, one of them for an output that is
\* read again after the instruction
C11_Witness ==
    /\ SplitComplete
    /\ Len(split.insns) > Len(asm.insns) + 1
    /\ \E k \in 0..(Len(asm.insns) - 1) :
          /\ At(asm.insns, k).op \in {"Add", "Not", "CSelZ"}
          /\ At(asm.insns, k).opnds[1].kind = "InsnOut"
          /\ At(asm.live_ranges, At(asm.insns, k).opnds[1].idx) > k

\* ------------------------------------------ the index table of x86_split
\* the instruction indices an instruction refers to
Refs(insn) ==
    {insn.opnds[q].idx : q \in {r \in 1..Len(insn.opnds) : insn.opnds[r].kind = "InsnOut"}}
    \cup {insn.opnds[q].base.n : q \in {r \in 1..Len(insn.opnds) : IsMemInsnOut(insn.opnds[r])}}

\* C12: while x86_split runs, entry k of the index table is the index of the
\* last new instruction written for old instruction k, which has k's opcode;
\* every reference in the new instructions written for k names an earlier
\* instruction that is either a Load inserted for k or the table entry of an
\* instruction k referred to, and every reference of k is carried over.
C12_IndexTable ==
    pc = "split" =>
        /\ Len(split_indices) = split_index
        /\ split_index > 0 => Last(split_indices) = Len(split.insns) - 1
        /\ \A k \in SplitDone :
              /\ FirstNew(k) <= LastNew(k)
              /\ At(split.insns, LastNew(k)).op = At(asm.insns, k).op
              /\ \A p \in FirstNew(k)..LastNew(k) : \A idx \in Refs(At(split.insns, p)) :
                    /\ idx < p
                    /\ \/ idx >= FirstNew(k)
                       \/ \E j \in Refs(At(asm.insns, k)) : idx = At(split_indices, j)
              /\ \A j \in Refs(At(asm.insns, k)) :
                    \E p \in FirstNew(k)..LastNew(k) :
                        At(split_indices, j) \in Refs(At(split.insns, p))

\* the splitter finished three instructions, moved a producer to a later
\* index and remapped a direct and a memory-base reference to it
C12_Witness ==
    /\ pc = "split"
    /\ split_index = 3
    /\ \E k \in SplitDone : \E q \in 1..Len(At(asm.insns, k).opnds) :
          LET o == At(asm.insns, k).opnds[q]
          IN o.kind = "InsnOut" /\ At(split_indices, o.idx) > o.idx
    /\ \E k \in SplitDone : \E q \in 1..Len(At(asm.insns, k).opnds) :
          LET o == At(asm.insns, k).opnds[q]
          IN IsMemInsnOut(o) /\ At(split_indices, o.base.n) > o.base.n

\* ------------------------------------- test_alloc_regs (SpecAllocTest)
add(a, left, right) == push_insn(a, Insn("Add", <<left, right>>, TargetNone, ""))

\* "Pad some instructions in": n adds whose output nobody reads
RECURSIVE pad(_, _)
pad(a, n) == IF n = 0 THEN a ELSE pad(add(a, EC, UImm(Bits64(0, 0, 0, 2))), n - 1)

\* the Assembler test_alloc_regs builds, with p1 and p2 padding instructions
test_alloc_regs_asm(p1, p2) ==
    LET a0 == add(AssemblerNew, EC, UImm(Bits64(0, 0, 0, 1)))
        a1 == add(pad(a0, p1), EC, UImm(Bits64(0, 0, 0, 3)))
        a2 == add(pad(a1, p2), returned(a0), returned(a1))
        a3 == add(a2, EC, UImm(Bits64(0, 0, 0, 5)))
    IN add(a3, returned(a3), UImm(Bits64(0, 0, 0, 6)))

\* one iteration of the loop of the first draft of alloc_regs: [insns, pool, err]
RECURSIVE draft_release(_, _, _, _, _, _, _)
draft_release(bitmap, rs, next_insns, opnds, p, live_ranges, index) ==
    IF p > Len(opnds) THEN [pool |-> bitmap, err |-> ""]
    ELSE IF opnds[p].kind # "InsnOut"
    THEN draft_release(bitmap, rs, next_insns, opnds, p + 1, live_ranges, index)
    ELSE IF ~(opnds[p].idx < index)
    THEN [pool |-> bitmap, err |-> "assertion failed: start_index < index"]
    ELSE IF opnds[p].idx >= Len(live_ranges)
    THEN [pool |-> bitmap, err |-> "index out of bounds"]
    ELSE IF At(live_ranges, opnds[p].idx) # index
    THEN draft_release(bitmap, rs, next_insns, opnds, p + 1, live_ranges, index)
    ELSE IF At(next_insns, opnds[p].idx).out.kind = "Reg"
    THEN draft_release(dealloc_reg(bitmap, rs, At(next_insns, opnds[p].idx).out),
                       rs, next_insns, opnds, p + 1, live_ranges, index)
    ELSE [pool |-> bitmap, err |-> "internal error: entered unreachable code"]

\* the first draft of alloc_regs, from instruction k on: [insns, pool, err]
RECURSIVE draft_alloc_regs_from(_, _, _, _, _)
draft_alloc_regs_from(a, rs, next_insns, bitmap, k) ==
    IF k >= Len(a.insns)
    THEN [insns |-> next_insns, pool |-> bitmap,
          err |-> IF bitmap = 0 THEN ""
                  ELSE "Expected all registers to be returned to the pool"]
    ELSE IF k >= Len(a.live_ranges)
    THEN [insns |-> next_insns, pool |-> bitmap, err |-> "index out of bounds"]
    ELSE LET insn == At(a.insns, k)
             used == At(a.live_ranges, k) # k
             ar == IF used THEN alloc_reg(bitmap, rs)
                   ELSE [pool |-> bitmap, reg |-> insn.out, err |-> ""]
             rl == draft_release(ar.pool, rs, next_insns, insn.opnds, 1, a.live_ranges, k)
         IN IF ar.err # "" THEN [insns |-> next_insns, pool |-> ar.pool, err |-> ar.err]
            ELSE IF rl.err # "" THEN [insns |-> next_insns, pool |-> rl.pool, err |-> rl.err]
            ELSE draft_alloc_regs_from(a, rs,
                     Append(next_insns, [insn EXCEPT !.out = ar.reg]), rl.pool, k + 1)

draft_alloc_regs(a, rs) == draft_alloc_regs_from(a, rs, <<>>, 0, 0)

\* the test hands its Assembler to alloc_regs as it is: split holds it
InitAllocTest ==
    /\ \E p1 \in 0..MaxPad : \E p2 \in 0..MaxPad :
          /\ asm = test_alloc_regs_asm(p1, p2)
          /\ split = test_alloc_regs_asm(p1, p2)
          /\ split_index = Len(asm.insns)
    /\ \E num_regs \in 2..Len(get_alloc_regs) : regs = SubSeq(get_alloc_regs, 1, num_regs)
    /\ pc = "alloc"
    /\ err = ""
    /\ ret = OpndNone
    /\ call = [fn |-> "alloc_regs"]
    /\ split_indices = <<>>
    /\ pool = 0
    /\ alloc_index = 0
    /\ alloc = AssemblerNew
    /\ cb = NoCodeBlock
    /\ emit = NoEmit

NextAllocTest ==
    \/ AllocStep
    \/ AllocEnd

SpecAllocTest == InitAllocTest /\ [][NextAllocTest]_vars

\* the bitmap with exactly the positions of S set
RECURSIVE SumPow2(_)
SumPow2(S) == IF S = {} THEN 0 ELSE LET i == CHOOSE x \in S : TRUE IN Pow2(i) + SumPow2(S \ {i})

\* the instruction that reads the two kept outputs
ReuseIdx == CHOOSE k \in 0..(Len(asm.insns) - 1) :
                /\ Len(At(asm.insns, k).opnds) = 2
                /\ At(asm.insns, k).opnds[1].kind = "InsnOut"
                /\ At(asm.insns, k).opnds[2].kind = "InsnOut"

\* pool positions in use once the operands that die at the instruction
\* alloc_regs is about to process have given their registers back
InUseAfterRelease ==
    LET insn == At(split.insns, alloc_index)
        dying == {j \in Refs(insn) : At(split.live_ranges, j) = alloc_index}
    IN {i \in 0..(Len(regs) - 1) : BitSet(pool, i)}
           \ {reg_position(regs, At(alloc.insns, j).out) : j \in dying}

NoSpecialCase ==
    LET insn == At(split.insns, alloc_index)
    IN /\ insn.op \notin {"CCall", "LiveReg"}
       /\ At(split.live_ranges, alloc_index) # alloc_index
       /\ reuse_candidate(alloc, insn, split.live_ranges, alloc_index) = OpndNone

\* C13: on the sequence of test_alloc_regs allocation does not fail, the first
\* and the third kept output get register 0 and the second register 1, with
\* both versions of alloc_regs; and a used output with no special case gets
\* the register of the lowest pool position that is free once the operands
\* dying at the instruction have released theirs.
C13_LowestFreeRegister ==
    /\ [](pc # "abort")
    /\ [](pc = "done" =>
            /\ At(alloc.insns, 0).out = regs[1]
            /\ At(alloc.insns, At(asm.insns, ReuseIdx).opnds[2].idx).out = regs[2]
            /\ At(alloc.insns, ReuseIdx + 1).out = regs[1]
            /\ LET d == draft_alloc_regs(asm, regs)
               IN /\ d.err = ""
                  /\ At(d.insns, 0).out = regs[1]
                  /\ At(d.insns, At(asm.insns, ReuseIdx).opnds[2].idx).out = regs[2]
                  /\ At(d.insns, ReuseIdx + 1).out = regs[1])
    /\ [][(pc = "alloc" /\ alloc_index < Len(split.insns) /\ NoSpecialCase) =>
            LET free == (0..(Len(regs) - 1)) \ InUseAfterRelease
                lowest == CHOOSE i \in free : \A j \in free : i <= j
            IN /\ free # {}
               /\ pc' = "alloc"
               /\ Last(alloc'.insns).out = At(regs, lowest)
               /\ pool' = SumPow2(InUseAfterRelease \cup {lowest})]_vars

\* the sequence of the test itself, allocated with two registers
C13_Witness ==
    /\ pc = "done"
    /\ Len(regs) = 2
    /\ Len(asm.insns) = 7
    /\ ReuseIdx = 4
    /\ At(asm.insns, 4).opnds = <<InsnOut(0, 64), InsnOut(2, 64)>>
    /\ At(alloc.insns, 5).out = RAX_REG

\* ------------------------------------------------ x86 operands and encoder
R10_REG == Reg(10, 64)

R11_REG == Reg(11, 64)

get_caller_save_regs ==
    <<RAX_REG, RCX_REG, RDX_REG, RSI_REG, RDI_REG, R8_REG, R9_REG, R10_REG, R11_REG>>

\* X86Opnd, the operand type of the encoder
uimm_opnd(v) == [x86 |-> "UImm", num_bits |-> uimm_num_bits(v), value |-> v]

imm_opnd(v) == [x86 |-> "Imm", num_bits |-> imm_num_bits(v), value |-> v]

X86Reg(reg) == [x86 |-> "Reg", reg_no |-> reg.reg_no, num_bits |-> reg.num_bits]

mem_opnd(num_bits, base_reg_no, disp) ==
    [x86 |-> "Mem", num_bits |-> num_bits, base_reg_no |-> base_reg_no, disp |-> disp]

X86Panic(msg) == [x86 |-> "Panic", msg |-> msg]

SCRATCH0 == X86Reg(R11_REG)

JMP_PTR_BYTES == 6

SIZEOF_VALUE == 8

\* a lowering that takes an operand without a register for RAX
into_none_as_rax(o) ==
    IF o.kind = "InsnOut" THEN X86Panic("InsnOut operand made it past register allocation")
    ELSE IF o.kind = "UImm" THEN uimm_opnd(o.val)
    ELSE IF o.kind = "Imm" THEN imm_opnd(o.val)
    ELSE IF o.kind = "Value" THEN uimm_opnd(as_u64(o.val))
    ELSE IF o.kind = "Reg" THEN X86Reg(o)
    ELSE IF o.kind = "Mem" /\ o.base.kind = "Reg" THEN mem_opnd(o.num_bits, o.base.n, o.disp)
    ELSE IF o.kind = "None" THEN X86Reg(RAX_REG)
    ELSE X86Panic("unsupported x86 operand type")

\* impl From<Opnd> for X86Opnd
into(o) ==
    IF o.kind = "InsnOut" THEN X86Panic("InsnOut operand made it past register allocation")
    ELSE IF o.kind = "UImm" THEN uimm_opnd(o.val)
    ELSE IF o.kind = "Imm" THEN imm_opnd(o.val)
    ELSE IF o.kind = "Value" THEN uimm_opnd(as_u64(o.val))
    ELSE IF o.kind = "Reg" THEN X86Reg(o)
    ELSE IF o.kind = "Mem" /\ o.base.kind = "Reg" THEN mem_opnd(o.num_bits, o.base.n, o.disp)
    ELSE IF o.kind = "None" THEN X86Panic("Attempted to lower an Opnd::None")
    ELSE X86Panic("unsupported x86 operand type")

\* Opnd::num_bits: Some(width) of a Reg, Mem or InsnOut, None (-1) otherwise
opnd_num_bits(o) == IF o.kind \in {"Reg", "Mem", "InsnOut"} THEN o.num_bits ELSE -1

\* one call of the encoder
Enc(fn, args) == [fn |-> fn, args |-> args]

\* the number of bytes a call of the encoder writes
enc_len(e) ==
    IF e.fn = "nop" THEN e.args[1]
    ELSE IF e.fn = "movabs" THEN 10
    ELSE IF e.fn \in {"jmp_label", "jmp_ptr", "call_ptr"} THEN 5
    ELSE IF e.fn = "lea_label" THEN 7
    ELSE IF e.fn = "mov" /\ e.args[2].x86 \in {"UImm", "Imm"} /\ e.args[2].num_bits = 64 THEN 10
    ELSE IF \E p \in 1..Len(e.args) : e.args[p].x86 \in {"UImm", "Imm"} THEN 7
    ELSE IF \E p \in 1..Len(e.args) : e.args[p].x86 = "Mem" THEN 4
    ELSE 3

\* --------------------------------------------------------------- CodeBlock
\* code lists the calls of the encoder whose bytes are in the buffer, with
\* the position of their first byte; a page keeps its last JMP_PTR_BYTES
\* bytes for the jump to the next page.
CodeBlock(write_pos, page_size, mem_size, dropped_bytes) ==
    [write_pos |-> write_pos, page_size |-> page_size, mem_size |-> mem_size,
     dropped_bytes |-> dropped_bytes, label_addrs |-> <<>>, label_names |-> <<>>,
     label_refs |-> <<>>, code |-> <<>>]

page_start_pos(c) == (c.write_pos \div c.page_size) * c.page_size

has_capacity(c, num_bytes) ==
    /\ c.write_pos + num_bytes <= page_start_pos(c) + c.page_size - JMP_PTR_BYTES
    /\ c.write_pos + num_bytes <= c.mem_size

\* the bytes of one encoder call; write_pos advances even when they are dropped
write_bytes(c, e) ==
    IF has_capacity(c, enc_len(e))
    THEN [c EXCEPT !.code = Append(@, [pos |-> c.write_pos, enc |-> e]),
                   !.write_pos = @ + enc_len(e)]
    ELSE [c EXCEPT !.dropped_bytes = TRUE, !.write_pos = @ + enc_len(e)]

\* the index of the new label is c.label_addrs' length before the call
cb_new_label(c, name) ==
    [c EXCEPT !.label_addrs = Append(@, -1), !.label_names = Append(@, name)]

cb_write_label(c, label_idx) == [c EXCEPT !.label_addrs[label_idx + 1] = c.write_pos]

label_ref(c, label_idx) ==
    [c EXCEPT !.label_refs = Append(@, [pos |-> c.write_pos, label_idx |-> label_idx])]

get_label_state(c) == [label_addrs |-> c.label_addrs, label_refs |-> c.label_refs]

set_label_state(c, state) ==
    [c EXCEPT !.label_addrs = state.label_addrs, !.label_refs = state.label_refs]

clear_labels(c) ==
    [c EXCEPT !.label_addrs = <<>>, !.label_names = <<>>, !.label_refs = <<>>]

\* every reference is resolved against the address of its label
link_labels(c) ==
    [c EXCEPT !.label_addrs = <<>>, !.label_names = <<>>, !.label_refs = <<>>]

\* [cb, ok]: go back to src_pos, jump from there to the start of the next
\* page and continue there; false and nothing changed when there is none
next_page(c, src_pos) ==
    LET next_start == ((src_pos \div c.page_size) + 1) * c.page_size
        written(e) == e.pos < src_pos
    IN IF next_start >= c.mem_size THEN [cb |-> c, ok |-> FALSE]
       ELSE [cb |-> [c EXCEPT
                       !.code = Append(SelectSeq(@, written),
                                       [pos |-> src_pos, enc |-> Enc("jmp_ptr", <<next_start>>)]),
                       !.write_pos = next_start,
                       !.dropped_bytes = FALSE],
             ok |-> TRUE]

\* ---------------------------------------------------------------- x86_emit
\* what emitting one instruction gives: the CodeBlock, insn_gc_offsets, a panic
Emitted(c, gc) == [cb |-> c, gc |-> gc, err |-> ""]

\* a call of the encoder on lowered operands; lowering may panic
encode(c, fn, args) ==
    IF \E p \in 1..Len(args) : args[p].x86 = "Panic"
    THEN [cb |-> c, gc |-> <<>>,
          err |-> args[CHOOSE p \in 1..Len(args) :
                          /\ args[p].x86 = "Panic"
                          /\ \A q \in 1..(p - 1) : args[q].x86 # "Panic"].msg]
    ELSE Emitted(write_bytes(c, Enc(fn, args)), <<>>)

\* an emit_64bit_immediate that sizes a UImm as the unsigned value it holds
emit_64bit_immediate_unsigned(c, opnd) ==
    IF \/ opnd.kind = "Imm" /\ imm_num_bits(opnd.val) > 32
       \/ opnd.kind = "UImm" /\ uimm_num_bits(opnd.val) > 32
    THEN [cb |-> write_bytes(c, Enc("mov", <<SCRATCH0, into(opnd)>>)), opnd |-> SCRATCH0]
    ELSE [cb |-> c, opnd |-> into(opnd)]

\* [cb, opnd]: `*value as i64` keeps the bit pattern
emit_64bit_immediate(c, opnd) ==
    IF \/ opnd.kind = "Imm" /\ imm_num_bits(opnd.val) > 32
       \/ opnd.kind = "UImm" /\ imm_num_bits(opnd.val) > 32
    THEN [cb |-> write_bytes(c, Enc("mov", <<SCRATCH0, into(opnd)>>)), opnd |-> SCRATCH0]
    ELSE [cb |-> c, opnd |-> into(opnd)]

\* the encoder function of Add, Sub, And, Or, Xor and Test
alu_fn(op) ==
    CASE op = "Add" -> "add" [] op = "Sub" -> "sub" [] op = "And" -> "and"
      [] op = "Or" -> "or" [] op = "Xor" -> "xor" [] op = "Test" -> "test"

emit_alu(c, insn) ==
    LET e == emit_64bit_immediate(c, insn.opnds[2])
    IN encode(e.cb, alu_fn(insn.op), <<into(insn.opnds[1]), e.opnd>>)

\* a Cmp arm that always goes through emit_64bit_immediate
emit_cmp_always_sized(c, insn) ==
    LET e == emit_64bit_immediate(c, insn.opnds[2])
    IN encode(e.cb, "cmp", <<into(insn.opnds[1]), e.opnd>>)

emit_cmp(c, insn) ==
    LET left == insn.opnds[1]
        right == insn.opnds[2]
        num_bits == IF right.kind = "Imm" THEN imm_num_bits(right.val)
                    ELSE IF right.kind = "UImm" THEN uimm_num_bits(right.val)
                    ELSE -1
    IN IF num_bits # -1 /\ opnd_num_bits(left) = num_bits /\ num_bits < 64
       THEN encode(c, "cmp", <<into(left), into(right)>>)
       ELSE LET e == emit_64bit_immediate(c, right)
            IN encode(e.cb, "cmp", <<into(left), e.opnd>>)

\* a Load arm that records where the movabs starts
emit_load_offset_at_start(c, out, opnd) ==
    IF opnd.kind = "Value" /\ heap_object_p(opnd.val)
    THEN LET r == encode(c, "movabs", <<into(out), uimm_opnd(opnd.val)>>)
         IN IF r.err # "" THEN r ELSE [r EXCEPT !.gc = <<c.write_pos>>]
    ELSE encode(c, "mov", <<into(out), into(opnd)>>)

\* Load and LoadInto
emit_load(c, out, opnd) ==
    IF opnd.kind = "Value" /\ heap_object_p(opnd.val)
    THEN LET r == encode(c, "movabs", <<into(out), uimm_opnd(opnd.val)>>)
         IN IF r.err # "" THEN r
            ELSE [r EXCEPT !.gc = <<r.cb.write_pos - SIZEOF_VALUE>>]
    ELSE encode(c, "mov", <<into(out), into(opnd)>>)

\* a PadInvalPatch arm that measures from the start of the emission only
emit_pad_from_start(c, start_write_pos) ==
    LET code_size == IF c.write_pos >= start_write_pos
                     THEN c.write_pos - start_write_pos ELSE 0
    IN IF code_size < JMP_PTR_BYTES
       THEN Emitted(write_bytes(c, Enc("nop", <<JMP_PTR_BYTES - code_size>>)), <<>>)
       ELSE Emitted(c, <<>>)

\* PadInvalPatch
emit_pad(c, start_write_pos) ==
    LET from == IF start_write_pos >= page_start_pos(c)
                THEN start_write_pos ELSE page_start_pos(c)
        code_size == IF c.write_pos >= from THEN c.write_pos - from ELSE 0
    IN IF code_size < JMP_PTR_BYTES
       THEN Emitted(write_bytes(c, Enc("nop", <<JMP_PTR_BYTES - code_size>>)), <<>>)
       ELSE Emitted(c, <<>>)

\* the conditional move each CSel passes to emit_csel
cmov_fn(op) ==
    CASE op = "CSelZ" -> "cmovnz" [] op = "CSelNZ" -> "cmovz" [] op = "CSelE" -> "cmovne"
      [] op = "CSelNE" -> "cmove" [] op = "CSelL" -> "cmovge" [] op = "CSelLE" -> "cmovg"
      [] op = "CSelG" -> "cmovle" [] op = "CSelGE" -> "cmovl"

emit_csel(c, truthy, falsy, out, fn) ==
    LET r == IF out # truthy THEN encode(c, "mov", <<into(out), into(truthy)>>)
             ELSE Emitted(c, <<>>)
    IN IF r.err # "" THEN r ELSE encode(r.cb, fn, <<into(out), into(falsy)>>)

\* LeaLabel: the lea into SCRATCH0 is a label reference of 7 bytes
emit_lea_label(c, target, out) ==
    encode(write_bytes(label_ref(c, target.n), Enc("lea_label", <<target.n>>)),
           "mov", <<into(out), SCRATCH0>>)

shift_fn(op) == CASE op = "LShift" -> "shl" [] op = "RShift" -> "sar" [] op = "URShift" -> "shr"

\* fn on each of regs[k..] in list order
RECURSIVE encode_each(_, _, _, _)
encode_each(c, fn, rs, k) ==
    IF k > Len(rs) THEN c
    ELSE encode_each(write_bytes(c, Enc(fn, <<X86Reg(rs[k])>>)), fn, rs, k + 1)

\* fn on each of regs[1..k] from the last to the first
RECURSIVE encode_each_rev(_, _, _, _)
encode_each_rev(c, fn, rs, k) ==
    IF k = 0 THEN c
    ELSE encode_each_rev(write_bytes(c, Enc(fn, <<X86Reg(rs[k])>>)), fn, rs, k - 1)

\* CPushAll: the caller-save registers, then the flags
emit_cpush_all(c) ==
    Emitted(write_bytes(encode_each(c, "push", get_caller_save_regs, 1), Enc("pushfq", <<>>)),
            <<>>)

\* a CPopAll that pops the registers in the order they were pushed
emit_cpop_all_list_order(c) ==
    Emitted(encode_each(write_bytes(c, Enc("popfq", <<>>)), "pop", get_caller_save_regs, 1),
            <<>>)

\* CPopAll: the flags, then the caller-save registers in reverse
emit_cpop_all(c) ==
    Emitted(encode_each_rev(write_bytes(c, Enc("popfq", <<>>)), "pop", get_caller_save_regs,
                            Len(get_caller_save_regs)),
            <<>>)

\* the match on the instruction; the arms of the other opcodes are not modelled
emit_insn(c, insn, start_write_pos) ==
    IF insn.op \in {"Comment", "LiveReg", "FrameSetup", "FrameTeardown"} THEN Emitted(c, <<>>)
    ELSE IF insn.op = "Label" THEN Emitted(cb_write_label(c, insn.target.n), <<>>)
    ELSE IF insn.op \in AluOps \cup {"Test"} THEN emit_alu(c, insn)
    ELSE IF insn.op = "Not" THEN encode(c, "not", <<into(insn.opnds[1])>>)
    ELSE IF insn.op \in {"Store", "Mov"}
    THEN encode(c, "mov", <<into(insn.opnds[1]), into(insn.opnds[2])>>)
    ELSE IF insn.op = "Load" THEN emit_load(c, insn.out, insn.opnds[1])
    ELSE IF insn.op = "LoadInto" THEN emit_load(c, insn.opnds[1], insn.opnds[2])
    ELSE IF insn.op = "Cmp" THEN emit_cmp(c, insn)
    ELSE IF insn.op = "Jmp" /\ insn.target.kind = "Label"
    THEN Emitted(write_bytes(label_ref(c, insn.target.n), Enc("jmp_label", <<insn.target.n>>)),
                 <<>>)
    ELSE IF insn.op = "Jmp" /\ insn.target.kind = "CodePtr"
    THEN Emitted(write_bytes(c, Enc("jmp_ptr", <<insn.target.n>>)), <<>>)
    ELSE IF insn.op = "PadInvalPatch" THEN emit_pad(c, start_write_pos)
    ELSE IF insn.op = "LoadSExt" THEN encode(c, "movsx", <<into(insn.out), into(insn.opnds[1])>>)
    ELSE IF insn.op = "Lea" THEN encode(c, "lea", <<into(insn.out), into(insn.opnds[1])>>)
    ELSE IF insn.op = "LeaLabel" THEN emit_lea_label(c, insn.target, insn.out)
    ELSE IF insn.op = "CPop" THEN encode(c, "pop", <<into(insn.out)>>)
    ELSE IF insn.op \in CSelOps
    THEN emit_csel(c, insn.opnds[1], insn.opnds[2], insn.out, cmov_fn(insn.op))
    ELSE IF insn.op \in ShiftOps
    THEN encode(c, shift_fn(insn.op), <<into(insn.opnds[1]), into(insn.opnds[2])>>)
    ELSE IF insn.op \in {"CPush", "CPopInto"}
    THEN encode(c, IF insn.op = "CPush" THEN "push" ELSE "pop", <<into(insn.opnds[1])>>)
    ELSE IF insn.op = "CPushAll" THEN emit_cpush_all(c)
    ELSE IF insn.op = "CPopAll" THEN emit_cpop_all(c)
    ELSE IF insn.op = "CCall" THEN Emitted(write_bytes(c, Enc("call_ptr", <<insn.target.n>>)), <<>>)
    ELSE [cb |-> c, gc |-> <<>>, err |-> "unsupported instruction passed to x86 backend"]

\* a retry that leaves the label state as the failed attempt left it
retry_insn_keep_labels(had_dropped_bytes, c, src_pos, old_label_state) ==
    IF ~had_dropped_bytes /\ c.dropped_bytes
    THEN LET np == next_page(c, src_pos) IN [cb |-> np.cb, retry |-> np.ok]
    ELSE [cb |-> c, retry |-> FALSE]

\* [cb, retry]: "On failure, jump to the next page and retry the current insn"
retry_insn(had_dropped_bytes, c, src_pos, old_label_state) ==
    IF ~had_dropped_bytes /\ c.dropped_bytes
    THEN LET np == next_page(c, src_pos)
         IN [cb |-> IF np.ok THEN set_label_state(np.cb, old_label_state) ELSE np.cb,
             retry |-> np.ok]
    ELSE [cb |-> c, retry |-> FALSE]

\* the locals of x86_emit at its entry; attempt describes the iteration of
\* the loop that ran last and retries counts the iterations that were retried
EmitStart(c) ==
    [insns_idx |-> 0, gc_offsets |-> <<>>, start_write_pos |-> c.write_pos,
     retries |-> 0, attempt |-> [n |-> 0]]

\* the bytes of the calls code[k..] holds
RECURSIVE CodeBytes(_, _)
CodeBytes(code, k) ==
    IF k > Len(code) THEN 0 ELSE enc_len(code[k].enc) + CodeBytes(code, k + 1)

\* dropped_now: some byte the match wrote did not get into the buffer
Attempt(e, c, r, rt) ==
    [n |-> e.attempt.n + 1, insns_idx |-> e.insns_idx, src_pos |-> c.write_pos,
     had_dropped_bytes |-> c.dropped_bytes, old_label_state |-> get_label_state(c),
     dropped_bytes |-> r.cb.dropped_bytes, end_pos |-> r.cb.write_pos,
     dropped_now |-> r.cb.write_pos - c.write_pos > CodeBytes(r.cb.code, Len(c.code) + 1),
     insn_gc_offsets |-> r.gc, retry |-> rt.retry]

\* an iteration that commits the offsets of a retried attempt as well
emit_iter_commit_on_retry(c, e, insns) ==
    LET r == emit_insn(c, At(insns, e.insns_idx), e.start_write_pos)
        rt == retry_insn(c.dropped_bytes, r.cb, c.write_pos, get_label_state(c))
    IN IF r.err # "" THEN [cb |-> r.cb, emit |-> e, err |-> r.err]
       ELSE IF rt.retry
       THEN [cb |-> rt.cb, err |-> "",
             emit |-> [e EXCEPT !.retries = @ + 1, !.attempt = Attempt(e, c, r, rt),
                                !.gc_offsets = @ \o r.gc]]
       ELSE [cb |-> rt.cb, err |-> "",
             emit |-> [e EXCEPT !.insns_idx = @ + 1, !.gc_offsets = @ \o r.gc,
                                !.attempt = Attempt(e, c, r, rt)]]

\* an iteration that retries after dropped bytes whether or not there is a next page
emit_iter_retry_without_page(c, e, insns) ==
    LET r == emit_insn(c, At(insns, e.insns_idx), e.start_write_pos)
        np == retry_insn(c.dropped_bytes, r.cb, c.write_pos, get_label_state(c))
        rt == [cb |-> np.cb, retry |-> ~c.dropped_bytes /\ r.cb.dropped_bytes]
    IN IF r.err # "" THEN [cb |-> r.cb, emit |-> e, err |-> r.err]
       ELSE IF rt.retry
       THEN [cb |-> rt.cb, err |-> "",
             emit |-> [e EXCEPT !.retries = @ + 1, !.attempt = Attempt(e, c, r, rt)]]
       ELSE [cb |-> rt.cb, err |-> "",
             emit |-> [e EXCEPT !.insns_idx = @ + 1, !.gc_offsets = @ \o r.gc,
                                !.attempt = Attempt(e, c, r, rt)]]

\* one iteration of `while let Some(insn) = self.insns.get(insns_idx)`: [cb, emit, err]
emit_iter(c, e, insns) ==
    LET r == emit_insn(c, At(insns, e.insns_idx), e.start_write_pos)
        rt == retry_insn(c.dropped_bytes, r.cb, c.write_pos, get_label_state(c))
    IN IF r.err # "" THEN [cb |-> r.cb, emit |-> e, err |-> r.err]
       ELSE IF rt.retry
       THEN [cb |-> rt.cb, err |-> "",
             emit |-> [e EXCEPT !.retries = @ + 1, !.attempt = Attempt(e, c, r, rt)]]
       ELSE [cb |-> rt.cb, err |-> "",
             emit |-> [e EXCEPT !.insns_idx = @ + 1, !.gc_offsets = @ \o r.gc,
                                !.attempt = Attempt(e, c, r, rt)]]

\* x86_emit from the state [cb, emit, err] on
RECURSIVE x86_emit_from(_, _)
x86_emit_from(s, insns) ==
    IF s.err # "" \/ s.emit.insns_idx >= Len(insns) THEN s
    ELSE x86_emit_from(emit_iter(s.cb, s.emit, insns), insns)

x86_emit(a, c) == x86_emit_from([cb |-> c, emit |-> EmitStart(c), err |-> ""], a.insns)

\* alloc_regs as one function: the Assembler it returns
RECURSIVE alloc_regs_from(_, _, _, _, _)
alloc_regs_from(old, rs, new, bitmap, k) ==
    IF new.err # "" THEN new
    ELSE IF k >= Len(old.insns)
    THEN IF bitmap = 0 THEN new
         ELSE [new EXCEPT !.err = "Expected all registers to be returned to the pool"]
    ELSE LET s == alloc_insn(new, bitmap, rs, At(old.insns, k), old.live_ranges, k)
         IN alloc_regs_from(old, rs, s.asm, s.pool, k + 1)

alloc_regs(a, rs) == alloc_regs_from(a, rs, new_with_label_names(a.label_names), 0, 0)

\* a registration that takes whatever index the buffer returns
RECURSIVE new_labels_from_unchecked(_, _, _)
new_labels_from_unchecked(c, names, idx) ==
    IF idx >= Len(names) THEN [cb |-> c, err |-> ""]
    ELSE new_labels_from_unchecked(cb_new_label(c, At(names, idx)), names, idx + 1)

new_labels_unchecked(c, names) == new_labels_from_unchecked(c, names, 0)

\* "Create label instances in the code block": [cb, err]
RECURSIVE new_labels_from(_, _, _)
new_labels_from(c, names, idx) ==
    IF idx >= Len(names) THEN [cb |-> c, err |-> ""]
    ELSE IF Len(c.label_addrs) # idx
    THEN [cb |-> cb_new_label(c, At(names, idx)), err |-> "assertion failed: label_idx == idx"]
    ELSE new_labels_from(cb_new_label(c, At(names, idx)), names, idx + 1)

new_labels(c, names) == new_labels_from(c, names, 0)

\* compile_with_regs up to the call of x86_emit
CompileWithRegs ==
    /\ pc = "compile"
    /\ \E s \in {x86_split(asm)} : \E a \in {IF s.err = "" THEN alloc_regs(s, regs) ELSE s} :
       \E nl \in {new_labels(cb, a.label_names)} :
          /\ split' = s
          /\ split_index' = Len(asm.insns)
          /\ alloc' = IF s.err = "" THEN a ELSE alloc
          /\ alloc_index' = IF s.err = "" THEN Len(s.insns) ELSE alloc_index
          /\ err' = IF a.err = "" THEN nl.err ELSE a.err
          /\ pc' = IF a.err = "" /\ nl.err = "" THEN "emit" ELSE "abort"
          /\ cb' = IF a.err = "" THEN nl.cb ELSE cb
          /\ emit' = IF a.err = "" /\ nl.err = "" THEN EmitStart(cb) ELSE emit
    /\ UNCHANGED <<asm, ret, call, split_indices, regs, pool>>

\* an iteration that moves on to the next instruction after a retry as well
EmitStepSkipsRetried ==
    /\ pc = "emit"
    /\ emit.insns_idx < Len(alloc.insns)
    /\ \E s \in {emit_iter(cb, emit, alloc.insns)} :
          /\ cb' = s.cb
          /\ emit' = [s.emit EXCEPT !.insns_idx = emit.insns_idx + 1]
          /\ err' = s.err
          /\ pc' = IF s.err = "" THEN "emit" ELSE "abort"
    /\ UNCHANGED <<asm, ret, call, split_index, split_indices, split, regs, pool,
                   alloc_index, alloc>>

EmitStep ==
    /\ pc = "emit"
    /\ emit.insns_idx < Len(alloc.insns)
    /\ \E s \in {emit_iter(cb, emit, alloc.insns)} :
          /\ cb' = s.cb
          /\ emit' = s.emit
          /\ err' = s.err
          /\ pc' = IF s.err = "" THEN "emit" ELSE "abort"
    /\ UNCHANGED <<asm, ret, call, split_index, split_indices, split, regs, pool,
                   alloc_index, alloc>>

\* compile_with_regs after x86_emit returned
EmitEnd ==
    /\ pc = "emit"
    /\ emit.insns_idx = Len(alloc.insns)
    /\ pc' = "emitted"
    /\ cb' = IF cb.dropped_bytes THEN clear_labels(cb) ELSE link_labels(cb)
    /\ UNCHANGED <<err, asm, ret, call, split_index, split_indices, split, regs, pool,
                   alloc_index, alloc, emit>>

\* ------------------------------- immediates in x86_emit (SpecEmitImm)
\* one two-operand instruction, compiled into the CodeBlock of setup_asm
ImmLefts == {RAX_REG, Reg(0, 32), mem(64, EC, 0), mem(32, RAX_REG, 4), mem(16, RAX_REG, 6)}

ImmRights ==
    {UImm(Bits64(0, 0, 0, 255)), UImm(Bits64(0, 0, 0, 61440)), UImm(Bits64(0, 0, 61440, 0)),
     UImm(Bits64(0, 65535, 65535, 65535)), UImm(Bits64(65535, 65535, 65535, 65535)),
     Imm(Bits64(65535, 65535, 65535, 65535)), Imm(Bits64(0, 0, 32767, 65535)),
     Imm(Bits64(65535, 65535, 32767, 65535)), RCX_REG}

ImmOps == AluOps \cup {"Test", "Cmp"}

InitEmitImm ==
    /\ \E op \in ImmOps : \E left \in ImmLefts : \E right \in ImmRights :
          /\ asm = push_insn(AssemblerNew, Insn(op, <<left, right>>, TargetNone, ""))
          /\ call = [fn |-> "compile_with_regs", op |-> op, left |-> left, right |-> right]
    /\ \E num_regs \in {1, Len(get_alloc_regs)} : regs = SubSeq(get_alloc_regs, 1, num_regs)
    /\ cb = CodeBlock(0, 1024, 1024, FALSE)
    /\ pc = "compile"
    /\ err = ""
    /\ ret = OpndNone
    /\ split_index = 0
    /\ split_indices = <<>>
    /\ split = AssemblerNew
    /\ pool = 0
    /\ alloc_index = 0
    /\ alloc = AssemblerNew
    /\ emit = NoEmit

NextEmit ==
    \/ CompileWithRegs
    \/ EmitStep
    \/ EmitEnd

SpecEmitImm == InitEmitImm /\ [][NextEmit]_vars

\* the instruction the last iteration of the loop emitted
LastInsn == At(alloc.insns, emit.attempt.insns_idx)

\* the calls of the encoder the last iteration left in the buffer
LastCalls ==
    LET mine(e) == e.pos >= emit.attempt.src_pos
        es == SelectSeq(cb.code, mine)
    IN [p \in 1..Len(es) |-> es[p].enc]

EmittedOp(ops) ==
    /\ pc = "emit"
    /\ emit.attempt.n > 0
    /\ LastInsn.op \in ops

IsImm(o) == o.kind \in {"Imm", "UImm"}

ScratchForm(fn) ==
    LastCalls = <<Enc("mov", <<SCRATCH0, into(LastInsn.opnds[2])>>),
                  Enc(fn, <<into(LastInsn.opnds[1]), SCRATCH0>>)>>

DirectForm(fn) ==
    LastCalls = <<Enc(fn, <<into(LastInsn.opnds[1]), into(LastInsn.opnds[2])>>)>>

\* the right immediate has the width of the left operand, a width under 64
WidthsMatch ==
    LET right == LastInsn.opnds[2]
        w == IF right.kind = "Imm" THEN imm_num_bits(right.val) ELSE uimm_num_bits(right.val)
    IN w = opnd_num_bits(LastInsn.opnds[1]) /\ w < 64

\* C14 as stated: a Cmp with an immediate on the right is a mov to R11 and a
\* register compare when the immediate needs 33 or more signed bits, and
\* the immediate form of cmp for every other immediate.
C14_CmpBySignedWidth ==
    (EmittedOp({"Cmp"}) /\ IsImm(LastInsn.opnds[2])) =>
        IF imm_num_bits(LastInsn.opnds[2].val) > 32
        THEN ScratchForm("cmp") ELSE DirectForm("cmp")

\* C14: a Cmp with an immediate on the right is a mov to R11 and a register
\* compare when the immediate needs 33 or more signed bits and is not an
\* immediate of the width of the left operand; in every other case,
\* a UImm of 32 unsigned bits against a 32-bit left operand included, it is
\* the immediate form of cmp.
C14_CmpByWidthMatch ==
    (EmittedOp({"Cmp"}) /\ IsImm(LastInsn.opnds[2])) =>
        IF imm_num_bits(LastInsn.opnds[2].val) > 32 /\ ~WidthsMatch
        THEN ScratchForm("cmp") ELSE DirectForm("cmp")

\* cmp(mem(32, RAX, 4), UImm(0xF000_0000)) in the immediate form
C14_Witness ==
    /\ EmittedOp({"Cmp"})
    /\ LastInsn.opnds = <<mem(32, RAX_REG, 4), UImm(Bits64(0, 0, 61440, 0))>>
    /\ DirectForm("cmp")

\* C15: Add, Sub, And, Or, Xor and Test move the right operand into R11 and
\* use the register form exactly when it is an Imm or UImm that needs more
\* than 32 bits as a signed 64-bit integer; otherwise the one call of the
\* encoder gets the right operand as it is.
C15_AluScratch ==
    EmittedOp(AluOps \cup {"Test"}) =>
        IF IsImm(LastInsn.opnds[2]) /\ imm_num_bits(LastInsn.opnds[2].val) > 32
        THEN ScratchForm(alu_fn(LastInsn.op)) ELSE DirectForm(alu_fn(LastInsn.op))

\* an add of UImm(0xF000_0000), which fits 32 unsigned bits, goes through R11
C15_Witness ==
    /\ EmittedOp({"Add"})
    /\ LastInsn.opnds[2] = UImm(Bits64(0, 0, 61440, 0))
    /\ ScratchForm("add")

\* ------------------------------------ the emission loop (SpecEmit)
MaxEmitInsns == 3
PageSize == 32
MaxPages == 2
BigPage == 1024

\* the output of the Load pushed last, a VM register when there is none
prev(a) == IF a.insns # <<>> /\ Last(a.insns).op = "Load" THEN Last(a.insns).out ELSE EC

\* the Assemblers one more builder call makes of a
EmitCalls(a) ==
    {push_insn(a, i) : i \in
        {Insn("Load", <<Value(V_HEAP)>>, TargetNone, ""),
         Insn("Load", <<Value(V_FIXNUM_1)>>, TargetNone, ""),
         Insn("LoadInto", <<RSI_REG, Value(V_HEAP)>>, TargetNone, ""),
         Insn("Cmp", <<prev(a), UImm(Bits64(0, 0, 0, 255))>>, TargetNone, ""),
         Insn("Cmp", <<prev(a), RSI_REG>>, TargetNone, ""),
         Insn("Cmp", <<EC, Value(V_HEAP)>>, TargetNone, ""),
         Insn("Jmp", <<>>, Label(0), ""),
         Insn("PadInvalPatch", <<>>, TargetNone, "")}}
      \cup {write_label(a, Label(0))}

RECURSIVE EmitPrograms(_)
EmitPrograms(n) ==
    IF n = 0 THEN {new_label(AssemblerNew, LABEL)}
    ELSE LET S == EmitPrograms(n - 1)
         IN S \cup UNION {EmitCalls(a) : a \in {b \in S : Len(b.insns) = n - 1}}

InitEmit ==
    /\ asm \in EmitPrograms(MaxEmitInsns)
    /\ \E pos \in {0, 22} : \E pages \in 1..MaxPages : \E dropped \in BOOLEAN :
          cb = CodeBlock(pos, PageSize, pages * PageSize, dropped)
    /\ regs = get_alloc_regs
    /\ call = [fn |-> "compile_with_regs"]
    /\ pc = "compile"
    /\ err = ""
    /\ ret = OpndNone
    /\ split_index = 0
    /\ split_indices = <<>>
    /\ split = AssemblerNew
    /\ pool = 0
    /\ alloc_index = 0
    /\ alloc = AssemblerNew
    /\ emit = NoEmit

SpecEmit == InitEmit /\ [][NextEmit]_vars

\* an iteration of the loop of x86_emit that did not panic
EmitIteration ==
    /\ pc = "emit"
    /\ pc' = "emit"
    /\ emit.insns_idx < Len(alloc.insns)
    /\ emit'.attempt.n = emit.attempt.n + 1

\* C16: the instruction is retried exactly when the buffer had no dropped
\* bytes before it, has dropped bytes after it and next_page succeeds; then
\* the label state is the one before the instruction, the index stays and
\* the offsets of the instruction are not in the list; in every other case
\* the index advances by one and its offsets are appended.
C16_RetryLoop ==
    [][EmitIteration =>
        LET r == emit_insn(cb, At(alloc.insns, emit.insns_idx), emit.start_write_pos)
        IN IF /\ ~cb.dropped_bytes
              /\ r.cb.dropped_bytes
              /\ next_page(r.cb, cb.write_pos).ok
           THEN /\ emit'.insns_idx = emit.insns_idx
                /\ get_label_state(cb') = get_label_state(cb)
                /\ emit'.gc_offsets = emit.gc_offsets
                /\ emit'.attempt.retry
           ELSE /\ emit'.insns_idx = emit.insns_idx + 1
                /\ emit'.gc_offsets = emit.gc_offsets \o r.gc
                /\ ~emit'.attempt.retry]_vars

\* a jump to a label was retried: the attempt had registered a reference
C16_Witness ==
    /\ pc = "emit"
    /\ emit.attempt.n > 0
    /\ emit.attempt.retry
    /\ LastInsn.op = "Jmp"
    /\ emit.insns_idx = emit.attempt.insns_idx
    /\ cb.label_refs = emit.attempt.old_label_state.label_refs

\* the last iteration committed the offsets it recorded
Committed ==
    /\ pc = "emit"
    /\ emit.attempt.n > 0
    /\ ~emit.attempt.retry
    /\ emit.attempt.insn_gc_offsets # <<>>

\* C17 as stated: no offset enters the list from an attempt in which the
\* buffer dropped bytes.
C17_NoOffsetFromDroppedAttempt == Committed => ~emit.attempt.dropped_now

\* C17: the offsets of an attempt are left out of the list exactly when the
\* attempt is retried on the next page; an attempt that is not retried
\* appends them, whether or not bytes were dropped in it.
C17_OffsetsDroppedOnlyOnRetry ==
    [][EmitIteration =>
        emit'.gc_offsets = IF emit'.attempt.retry THEN emit.gc_offsets
                           ELSE emit.gc_offsets \o emit'.attempt.insn_gc_offsets]_vars

\* the movabs did not fit, there was no next page, and its offset is in the list
C17_Witness ==
    /\ Committed
    /\ emit.attempt.dropped_now
    /\ ~emit.attempt.had_dropped_bytes
    /\ Last(emit.gc_offsets) = emit.attempt.end_pos - SIZEOF_VALUE

\* the Load and LoadInto of a heap object among the instructions emitted so far
HeapLoads ==
    LET heap(i) == \/ i.op = "Load" /\ i.opnds[1].kind = "Value" /\ heap_object_p(i.opnds[1].val)
                   \/ i.op = "LoadInto" /\ i.opnds[2].kind = "Value"
                                        /\ heap_object_p(i.opnds[2].val)
    IN SelectSeq(SubSeq(alloc.insns, 1, emit.insns_idx), heap)

Movabs ==
    LET movabs(e) == e.enc.fn = "movabs"
    IN SelectSeq(cb.code, movabs)

\* C18: while the buffer has no dropped bytes the list holds, in order, one
\* offset for each Load or LoadInto of a heap object emitted so far, the
\* write position after its movabs minus 8, and nothing else.
C18_GcOffsets ==
    (pc = "emit" /\ emit.attempt.n > 0 /\ ~cb.dropped_bytes) =>
        /\ Len(emit.gc_offsets) = Len(HeapLoads)
        /\ Len(emit.gc_offsets) = Len(Movabs)
        /\ \A k \in 1..Len(Movabs) :
              emit.gc_offsets[k] = Movabs[k].pos + enc_len(Movabs[k].enc) - 8

\* a heap object and an immediate Value were loaded: one offset
C18_Witness ==
    /\ pc = "emit"
    /\ emit.insns_idx = Len(alloc.insns)
    /\ ~cb.dropped_bytes
    /\ emit.retries = 0
    /\ Len(emit.gc_offsets) = 1
    /\ \E k \in 1..Len(alloc.insns) :
          alloc.insns[k].op = "Load" /\ alloc.insns[k].opnds[1] = Value(V_FIXNUM_1)

\* the emission of the same instructions into a buffer of one large page
NoBoundary ==
    x86_emit(alloc, new_labels(CodeBlock(emit.start_write_pos, BigPage, BigPage, FALSE),
                               alloc.label_names).cb)

Calls(code) == [p \in 1..Len(code) |-> code[p].enc]

NoPageJump(code) == LET own(e) == e.enc.fn # "jmp_ptr" IN SelectSeq(code, own)

NoNops(code) == LET own(e) == e.enc.fn # "nop" IN SelectSeq(code, own)

LabelsOf(c) == [p \in 1..Len(c.label_refs) |-> c.label_refs[p].label_idx]

RetriedOnce ==
    /\ pc = "emit"
    /\ emit.insns_idx = Len(alloc.insns)
    /\ emit.retries = 1
    /\ ~cb.dropped_bytes

\* C19 as stated: an emission with one retry leaves the same calls of the
\* encoder in the buffer as the emission without a page boundary, the jump
\* to the next page apart.
C19_RetrySameCode ==
    RetriedOnce =>
        /\ NoBoundary.err = ""
        /\ Calls(NoPageJump(cb.code)) = Calls(NoBoundary.cb.code)

\* C19: an emission with one retry leaves the same calls of the encoder and
\* the same label references as the emission without a page boundary, apart
\* from the jump to the next page and from the NOPs of PadInvalPatch, which
\* are counted from the start of the new page after the switch.
C19_RetrySameCodeButPad ==
    RetriedOnce =>
        /\ NoBoundary.err = ""
        /\ Calls(NoNops(NoPageJump(cb.code))) = Calls(NoNops(NoBoundary.cb.code))
        /\ LabelsOf(cb) = LabelsOf(NoBoundary.cb)
        /\ Len(emit.gc_offsets) = Len(NoBoundary.emit.gc_offsets)

\* three instructions, the second one emitted again on the second page
C19_Witness ==
    /\ RetriedOnce
    /\ Len(alloc.insns) = 3
    /\ \E k \in 1..Len(cb.code) :
          /\ cb.code[k].enc.fn = "jmp_ptr"
          /\ k > 1
          /\ k < Len(cb.code)

\* the last iteration emitted a PadInvalPatch and no byte was dropped
PadEmitted ==
    /\ EmittedOp({"PadInvalPatch"})
    /\ ~emit.attempt.dropped_bytes

PadFrom ==
    LET page == (emit.attempt.src_pos \div cb.page_size) * cb.page_size
    IN IF emit.start_write_pos >= page THEN emit.start_write_pos ELSE page

\* C20: after a PadInvalPatch the write position is at least JMP_PTR_BYTES
\* past the later of the start of the emission and the start of the page,
\* and the NOPs written are the missing distance, none when there is none.
C20_PadInvalPatch ==
    PadEmitted =>
        /\ cb.write_pos >= PadFrom + 6
        /\ LastCalls = IF emit.attempt.src_pos - PadFrom >= 6 THEN <<>>
                       ELSE <<Enc("nop", <<6 - (emit.attempt.src_pos - PadFrom)>>)>>

\* three bytes into the second page, three NOPs
C20_Witness ==
    /\ PadEmitted
    /\ emit.retries = 1
    /\ emit.attempt.src_pos = PageSize + 3
    /\ LastCalls = <<Enc("nop", <<3>>)>>

\* ------------------------------------------- pool exhaustion (SpecSpill)
MaxSpillInsns == 3

MaxSpillRegs == 2

\* the Assemblers one more builder call makes of a
SpillCalls(a) ==
    {push_insn(a, i) : i \in
        {Insn("LiveReg", <<RAX_REG>>, TargetNone, ""),
         Insn("LiveReg", <<RSI_REG>>, TargetNone, ""),
         Insn("Load", <<UImm(U_FF)>>, TargetNone, ""),
         Insn("CCall", <<>>, FunPtr(1), "")}
        \cup {Insn("Add", <<x, y>>, TargetNone, "") :
                 x \in OutHandles(a), y \in OutHandles(a) \cup {UImm(U_FF)}}}

RECURSIVE SpillPrograms(_)
SpillPrograms(n) ==
    IF n = 0 THEN {AssemblerNew}
    ELSE LET S == SpillPrograms(n - 1)
         IN S \cup UNION {SpillCalls(a) : a \in {b \in S : Len(b.insns) = n - 1}}

\* compile_with_num_regs drains the first num_regs registers of the pool
InitSpill ==
    /\ asm \in SpillPrograms(MaxSpillInsns)
    /\ split = asm
    /\ split_index = Len(asm.insns)
    /\ \E num_regs \in 0..MaxSpillRegs : regs = SubSeq(get_alloc_regs, 1, num_regs)
    /\ pc = "alloc"
    /\ err = ""
    /\ ret = OpndNone
    /\ call = [fn |-> "alloc_regs"]
    /\ split_indices = <<>>
    /\ pool = 0
    /\ alloc_index = 0
    /\ alloc = AssemblerNew
    /\ cb = NoCodeBlock
    /\ emit = NoEmit

SpecSpill == InitSpill /\ [][NextAllocTest]_vars

\* the outputs that are live after instruction i of a
LiveAt(a, i) == {j \in 0..i : At(a.live_ranges, j) > i}

\* the pool after the dying operands of the next instruction released theirs
PoolAfterReclaim ==
    reclaim(pool, regs, alloc, At(split.insns, alloc_index).opnds, 1,
            split.live_ranges, alloc_index)

\* the next instruction reaches the call of alloc_reg
NeedsFreshReg ==
    /\ pc = "alloc"
    /\ alloc_index < Len(split.insns)
    /\ PoolAfterReclaim.err = ""
    /\ At(split.live_ranges, alloc_index) # alloc_index
    /\ At(split.insns, alloc_index).op \notin {"CCall", "LiveReg"}
    /\ reuse_candidate(alloc, At(split.insns, alloc_index), split.live_ranges,
                       alloc_index) = OpndNone

PoolFull == PoolAfterReclaim.pool = Pow2(Len(regs)) - 1

\* the live outputs of the instructions allocated so far that hold a register of the pool
InPoolLive ==
    {j \in 0..(Len(alloc.insns) - 1) :
        /\ At(split.live_ranges, j) >= alloc_index
        /\ At(alloc.insns, j).out.kind = "Reg"
        /\ reg_position(regs, At(alloc.insns, j).out) # -1}

\* C21 as stated: alloc_regs returns no Assembler for an input in which more
\* values are live at once than the pool has registers.
C21_MoreLiveThanRegsRejected ==
    pc = "done" => \A i \in 0..(Len(split.insns) - 1) :
                       Cardinality(LiveAt(split, i)) <= Len(regs)

\* C21 amended: an instruction that needs a fresh register while every register
\* of the pool is in use aborts alloc_regs with 'Register spill not supported',
\* and at no point do more live values hold registers of the pool than the pool
\* has registers (a value in a register outside the pool takes no slot).
C21_NoSpill ==
    /\ [][NeedsFreshReg /\ PoolFull
            => pc' = "abort" /\ err' = "Register spill not supported"]_vars
    /\ [](pc \in {"alloc", "done"} =>
            /\ Cardinality(InPoolLive) <= Len(regs)
            /\ \A j, k \in InPoolLive :
                  j # k => At(alloc.insns, j).out.reg_no # At(alloc.insns, k).out.reg_no)

\* a load took the only register of the pool and a second value asked for one
C21_Witness ==
    /\ pc = "abort"
    /\ err = "Register spill not supported"
    /\ Len(regs) = 1
    /\ Cardinality(LiveAt(split, alloc_index - 1)) = 2

\* ------------------------------------------------ labels (SpecLabel)
MaxLabelCalls == 3

MaxLabelInsns == 2

LabelNames == {<<"a", "_", "b">>, <<"x">>, <<"a", " ", "b">>}

LabelNew == \E name \in LabelNames : NewLabelTo(MaxLabelCalls, name)

LabelWrite == \E i \in 0..MaxLabelCalls : WriteLabelTo(MaxLabelInsns, Label(i))

LabelJmp == \E t \in Targets(asm) : Build(MaxLabelInsns, "Jmp", <<>>, t, "")

NextLabel ==
    \/ LabelNew
    \/ LabelWrite
    \/ LabelJmp

SpecLabel == Init /\ [][NextLabel]_vars

\* C22: new_label panics on a name with a space and leaves the Assembler as it
\* was; otherwise it appends the name and returns Label(n) with n the number of
\* names before, so every label handed out indexes label_names. write_label
\* with an index that is not below |label_names| panics and appends nothing;
\* otherwise it appends exactly one Label instruction without operands.
C22_Labels ==
    /\ [][pc = "build" /\ call'.fn = "new_label" =>
            IF contains(call'.name, " ")
            THEN /\ pc' = "abort"
                 /\ asm'.label_names = asm.label_names
                 /\ asm'.insns = asm.insns
            ELSE /\ pc' = "build"
                 /\ ret' = Label(Len(asm.label_names))
                 /\ asm'.label_names = Append(asm.label_names, call'.name)
                 /\ asm'.insns = asm.insns]_vars
    /\ [][pc = "build" /\ call'.fn = "write_label" =>
            IF call'.label.n >= Len(asm.label_names)
            THEN /\ pc' = "abort"
                 /\ asm'.insns = asm.insns
                 /\ asm'.label_names = asm.label_names
            ELSE /\ pc' = "build"
                 /\ Len(asm'.insns) = Len(asm.insns) + 1
                 /\ SubSeq(asm'.insns, 1, Len(asm.insns)) = asm.insns
                 /\ Last(asm'.insns).op = "Label"
                 /\ Last(asm'.insns).opnds = <<>>
                 /\ Last(asm'.insns).target = call'.label
                 /\ asm'.label_names = asm.label_names]_vars
    /\ [](ret.kind = "Label" => ret.n < Len(asm.label_names))

\* the second label was written, then a name with a space was refused
C22_Witness ==
    /\ pc = "abort"
    /\ err = "use underscores in label names, not spaces"
    /\ Len(asm.label_names) = 2
    /\ \E i \in 1..Len(asm.insns) :
          asm.insns[i].op = "Label" /\ asm.insns[i].target = Label(1)

\* ------------------------------------- outputs nobody reads (SpecUnused)
\* the instructions whose arm of x86_emit lowers the out field
OutReaders == {"Load", "LoadSExt", "Lea", "LeaLabel", "CPop"} \cup CSelOps

\* one instruction with an output, then nothing, a comment, or a reader of the output
UnusedPrograms ==
    LET l == new_label(AssemblerNew, LABEL)
        firsts ==
            {push_insn(l, i) : i \in
                {Insn("Load", <<mem(64, EC, 0)>>, TargetNone, ""),
                 Insn("LoadSExt", <<mem(32, EC, 0)>>, TargetNone, ""),
                 Insn("Lea", <<mem(64, EC, 8)>>, TargetNone, ""),
                 Insn("LeaLabel", <<>>, Label(0), ""),
                 Insn("CPop", <<>>, TargetNone, "")}
                \cup {Insn(op, <<RCX_REG, RDX_REG>>, TargetNone, "") : op \in CSelOps}}
    IN UNION {{a,
               push_insn(a, Insn("Comment", <<>>, TargetNone, "text")),
               push_insn(a, Insn("Mov", <<RSI_REG, out_opnd(a)>>, TargetNone, "")),
               push_insn(a, Insn("Store", <<mem(64, EC, 16), out_opnd(a)>>, TargetNone, ""))}
              : a \in firsts}

InitUnused ==
    /\ asm \in UnusedPrograms
    /\ cb = CodeBlock(0, BigPage, BigPage, FALSE)
    /\ regs = get_alloc_regs
    /\ call = [fn |-> "compile_with_regs"]
    /\ pc = "compile"
    /\ err = ""
    /\ ret = OpndNone
    /\ split_index = 0
    /\ split_indices = <<>>
    /\ split = AssemblerNew
    /\ pool = 0
    /\ alloc_index = 0
    /\ alloc = AssemblerNew
    /\ emit = NoEmit

SpecUnused == InitUnused /\ [][NextEmit]_vars

\* the operands of the compiled program and the operands of its instructions' outputs
LoweredOpnds ==
    {OpndNone} \cup {asm.insns[i].out : i \in 1..Len(asm.insns)}
        \cup UNION {{asm.insns[i].opnds[p] : p \in 1..Len(asm.insns[i].opnds)} :
                    i \in 1..Len(asm.insns)}

\* C23: lowering an InsnOut or a None operand to an x86 operand panics, and
\* x86_emit panics at a Load, LoadSExt, Lea, LeaLabel, CPop or CSel* whose out
\* field alloc_regs left None because nothing reads the output; with a reader
\* the same programs are emitted.
C23_UnusedOutput ==
    /\ [](\A o \in LoweredOpnds :
            /\ o.kind = "None" => into(o) = X86Panic("Attempted to lower an Opnd::None")
            /\ o.kind = "InsnOut" =>
                 into(o) = X86Panic("InsnOut operand made it past register allocation"))
    /\ [][/\ pc = "emit"
          /\ emit.insns_idx < Len(alloc.insns)
          /\ At(alloc.insns, emit.insns_idx).op \in OutReaders
          /\ At(alloc.insns, emit.insns_idx).out = OpndNone
          => pc' = "abort" /\ err' = "Attempted to lower an Opnd::None"]_vars
    /\ [](pc = "emitted" /\ At(alloc.insns, 0).op \in OutReaders
            => At(alloc.insns, 0).out.kind = "Reg")
    /\ [](pc = "abort" => At(alloc.insns, 0).out = OpndNone)

\* the emitter stopped at a LeaLabel whose output nothing reads
C23_Witness ==
    /\ pc = "abort"
    /\ err = "Attempted to lower an Opnd::None"
    /\ At(alloc.insns, emit.insns_idx).op = "LeaLabel"
    /\ At(split.live_ranges, emit.insns_idx) = emit.insns_idx

\* ---------------------------------- the rules of x86_split (SpecSplit)
\* 2^32 as a signed immediate and 0xFFFF_FFFF as an unsigned one: neither
\* fits 32 signed bits
I_33BITS == Bits64(0, 1, 0, 0)

U_32ONES == Bits64(0, 0, 65535, 65535)

\* the operands of the instruction that is split
SplitOpnds(a) ==
    {EC, mem(64, EC, 0), UImm(U_FF), UImm(U_32ONES), Imm(I_33BITS),
     Value(V_FIXNUM_1), Value(V_HEAP)} \cup OutHandles(a) \cup MemOfHandles(a)

SplitOps2 == {"Add", "Xor", "Cmp", "Test", "LShift", "URShift", "CSelZ", "CSelGE", "Mov"}

\* a with one more instruction in it, the one whose rule is looked at
SplitTested(a) ==
    {push_insn(a, Insn(op, <<l, r>>, TargetNone, "")) :
        op \in SplitOps2, l \in SplitOpnds(a), r \in SplitOpnds(a)}
      \cup {push_insn(a, Insn("Not", <<l>>, TargetNone, "")) : l \in SplitOpnds(a)}

\* b, and b followed by a later reader of the output of the first instruction
SplitReadLater(b) ==
    IF b.insns[1].op = "Load"
    THEN {b, push_insn(b, Insn("CPush", <<b.insns[1].out>>, TargetNone, ""))}
    ELSE {b}

\* an optional Load, the instruction that is split, an optional later reader
SplitPrograms ==
    UNION {SplitReadLater(b) :
           b \in UNION {SplitTested(a) : a \in {AssemblerNew, load(AssemblerNew, mem(64, EC, 8))}}}

InitSplit ==
    /\ asm \in {a \in SplitPrograms : a.err = ""}
    /\ pc = "build"
    /\ err = ""
    /\ ret = OpndNone
    /\ call = NoCall
    /\ split_index = 0
    /\ split_indices = <<>>
    /\ split = AssemblerNew
    /\ regs = <<>>
    /\ pool = 0
    /\ alloc_index = 0
    /\ alloc = AssemblerNew
    /\ cb = NoCodeBlock
    /\ emit = NoEmit

NextSplit ==
    \/ StartSplit
    \/ SplitStep

SpecSplit == InitSplit /\ [][NextSplit]_vars

\* operand p of old instruction k as the caller gave it, and what stands for it
OldOpnd(k, p) == At(asm.insns, k).opnds[p]

\* the output of a Load of o that x86_split inserted for old instruction k
IsLoadOf(k, new, o) ==
    /\ new.kind = "InsnOut"
    /\ IsInsertedLoad(k, new.idx)
    /\ At(split.insns, new.idx).opnds = <<o>>

\* the old output o is read again after old instruction k
LivesPast(o, k) == o.kind = "InsnOut" /\ At(asm.live_ranges, o.idx) > k

\* C24: an Add, Sub, And, Or or Xor of two immediates comes out of x86_split
\* with its first operand loaded into a register.
C24_BothImmediatesLoaded ==
    \A k \in SplitDone :
        /\ At(asm.insns, k).op \in AluOps
        /\ IsImmediate(OldOpnd(k, 1))
        /\ IsImmediate(OldOpnd(k, 2))
        => IsLoadOf(k, FinalOpnd(k, 1), OldOpnd(k, 1))

\* operand p of old instruction k with its InsnOut indices mapped to the new ones
MappedOpnd(k, p) == map_index(OldOpnd(k, p), split_indices)

InPlaceOps == {"Not"} \cup ShiftOps

\* operand p of old instruction k became the output of a Load inserted for k
OpndLoaded(k, p) ==
    FinalOpnd(k, p).kind = "InsnOut" /\ IsInsertedLoad(k, FinalOpnd(k, p).idx)

\* operand p of old instruction k went through with its indices mapped only
OpndKept(k, p) ==
    /\ FinalOpnd(k, p) = MappedOpnd(k, p)
    /\ ~InsertedLoadOf(k, MappedOpnd(k, p))

\* a Value operand that the operand loop replaces by the output of a Load
PromotedValue(o) == o.kind = "Value" /\ promote_value(o.val)

\* in the Assembler x86_split writes, no Not or shift has a register, a memory
\* operand or an output that a later instruction reads as its first operand
InPlaceOperandDies ==
    \A j \in 0..(Len(split.insns) - 1) :
        At(split.insns, j).op \in InPlaceOps =>
            LET o == At(split.insns, j).opnds[1]
            IN /\ o.kind \notin {"Reg", "Mem"}
               /\ o.kind = "InsnOut" => At(split.live_ranges, o.idx) = j

\* C26 as stated: the first operand of a Not or shift is loaded exactly when it
\* is an output read again later, a register or a memory operand, and the
\* operand modified in place is never read again.
C26_InPlaceLoadExactly ==
    /\ \A k \in SplitDone :
          At(asm.insns, k).op \in InPlaceOps =>
              (OpndLoaded(k, 1) <=>
                  \/ LivesPast(OldOpnd(k, 1), k)
                  \/ OldOpnd(k, 1).kind \in {"Reg", "Mem"})
    /\ InPlaceOperandDies

\* C26 amended: the rule of Not and of the shifts loads the first operand
\* exactly when it is an output read again later, a register or a memory
\* operand; besides, a Value operand that is a heap object or wider than 32
\* bits was already replaced by the output of a Load in the operand loop. An
\* output read here for the last time and an immediate go through unloaded, so
\* the operand modified in place is never a value that is read again later.
C26_InPlaceLoad ==
    /\ \A k \in SplitDone :
          At(asm.insns, k).op \in InPlaceOps =>
              LET l == OldOpnd(k, 1)
              IN /\ LivesPast(l, k) \/ l.kind \in {"Reg", "Mem"} =>
                       IsLoadOf(k, FinalOpnd(k, 1), MappedOpnd(k, 1))
                 /\ PromotedValue(l) => IsLoadOf(k, FinalOpnd(k, 1), l)
                 /\ l.kind = "Value" /\ ~PromotedValue(l) =>
                       FinalOpnd(k, 1) = UImm(as_u64(l.val))
                 /\ l.kind = "InsnOut" /\ ~LivesPast(l, k) => OpndKept(k, 1)
                 /\ IsImmediate(l) => OpndKept(k, 1)
                 /\ OpndLoaded(k, 1) <=>
                       \/ LivesPast(l, k)
                       \/ l.kind \in {"Reg", "Mem"}
                       \/ PromotedValue(l)
    /\ InPlaceOperandDies

\* a shift of an output that a later instruction reads again, split to the end
C26_Witness ==
    /\ split_index = Len(asm.insns)
    /\ \E k \in SplitDone :
          /\ At(asm.insns, k).op = "URShift"
          /\ LivesPast(OldOpnd(k, 1), k)
          /\ OpndLoaded(k, 1)
          /\ At(split.live_ranges, FinalOpnd(k, 1).idx) = LastNew(k)

AnyImmediate(o) == o.kind \in {"Imm", "UImm", "Value"}

\* C27: x86_split of a CSel* loads the truthy operand when it is an InsnOut
\* read again after this instruction or any immediate (Imm, UImm, Value), and
\* the falsy operand when it is any immediate; no CSel* of the split output
\* has an immediate as truthy or falsy operand.
C27_CSelLoadsImmediates ==
    /\ \A k \in SplitDone :
          At(asm.insns, k).op \in CSelOps =>
              /\ LivesPast(OldOpnd(k, 1), k) \/ AnyImmediate(OldOpnd(k, 1)) => OpndLoaded(k, 1)
              /\ AnyImmediate(OldOpnd(k, 2)) => OpndLoaded(k, 2)
    /\ \A j \in 0..(Len(split.insns) - 1) :
          At(split.insns, j).op \in CSelOps =>
              /\ ~AnyImmediate(At(split.insns, j).opnds[1])
              /\ ~AnyImmediate(At(split.insns, j).opnds[2])

\* a CSelGE of a wide signed immediate and a small unsigned one, both loaded
C27_Witness ==
    \E k \in SplitDone :
        /\ At(asm.insns, k).op = "CSelGE"
        /\ OldOpnd(k, 1) = Imm(I_33BITS)
        /\ OldOpnd(k, 2) = UImm(U_FF)
        /\ IsLoadOf(k, FinalOpnd(k, 1), Imm(I_33BITS))
        /\ IsLoadOf(k, FinalOpnd(k, 2), UImm(U_FF))

\* an Imm or UImm whose bits read as a signed 64-bit integer need more than 32 bits
WideImmediate(o) == IsImmediate(o) /\ imm_num_bits(o.val) > 32

\* the source of the Mov at old index k is one the Mov rule pre-loads
MovPreloads(k) ==
    /\ OldOpnd(k, 1).kind = "Mem"
    /\ OldOpnd(k, 2).kind = "Mem" \/ WideImmediate(OldOpnd(k, 2))

NoMemToMemMov ==
    \A j \in 0..(Len(split.insns) - 1) :
        At(split.insns, j).op = "Mov" =>
            ~(At(split.insns, j).opnds[1].kind = "Mem" /\ At(split.insns, j).opnds[2].kind = "Mem")

\* the Loads x86_split wrote for old instruction k
NumInserted(k) == LastNew(k) - FirstNew(k)

\* C28 as stated: a Mov gets a Load of its source exactly when the destination
\* is memory and the source is memory or a wide Imm/UImm, in every other case
\* it is written again with its mapped operands and no Load, and no Mov of the
\* split output moves memory to memory.
C28_MovPreloadExactly ==
    /\ \A k \in SplitDone :
          At(asm.insns, k).op = "Mov" =>
              IF MovPreloads(k)
              THEN IsLoadOf(k, FinalOpnd(k, 2), MappedOpnd(k, 2)) /\ NumInserted(k) = 1
              ELSE NumInserted(k) = 0
    /\ NoMemToMemMov

\* C28 amended: the Mov rule pre-loads the source exactly when the destination
\* is memory and the source is memory or an Imm/UImm that needs more than 32
\* signed bits; apart from the rule, an operand that is a heap or wide Value
\* was replaced by the output of a Load in the operand loop, and a smaller
\* Value became a UImm. Every other operand goes through with its indices
\* mapped and no Load, and no Mov of the split output moves memory to memory.
C28_MovPreload ==
    /\ \A k \in SplitDone :
          At(asm.insns, k).op = "Mov" =>
              LET d == OldOpnd(k, 1)
                  s == OldOpnd(k, 2)
                  n1 == IF OpndLoaded(k, 1) THEN 1 ELSE 0
                  n2 == IF OpndLoaded(k, 2) THEN 1 ELSE 0
              IN /\ MovPreloads(k) => IsLoadOf(k, FinalOpnd(k, 2), MappedOpnd(k, 2))
                 /\ PromotedValue(s) => IsLoadOf(k, FinalOpnd(k, 2), s)
                 /\ OpndLoaded(k, 2) <=> MovPreloads(k) \/ PromotedValue(s)
                 /\ OpndLoaded(k, 1) <=> PromotedValue(d)
                 /\ \A p \in 1..2 :
                       ~OpndLoaded(k, p) =>
                           FinalOpnd(k, p) = IF OldOpnd(k, p).kind = "Value"
                                             THEN UImm(as_u64(OldOpnd(k, p).val))
                                             ELSE MappedOpnd(k, p)
                 /\ NumInserted(k) = n1 + n2
    /\ NoMemToMemMov

\* a Mov of 0xFFFF_FFFF to memory: the source was loaded first
C28_Witness ==
    \E k \in SplitDone :
        /\ At(asm.insns, k).op = "Mov"
        /\ OldOpnd(k, 1).kind = "Mem"
        /\ OldOpnd(k, 2) = UImm(U_32ONES)
        /\ IsLoadOf(k, FinalOpnd(k, 2), UImm(U_32ONES))

BothMemory(k) == OldOpnd(k, 1).kind = "Mem" /\ OldOpnd(k, 2).kind = "Mem"

NoMemToMemCmp ==
    \A j \in 0..(Len(split.insns) - 1) :
        At(split.insns, j).op \in {"Cmp", "Test"} =>
            ~(At(split.insns, j).opnds[1].kind = "Mem" /\ At(split.insns, j).opnds[2].kind = "Mem")

\* C29 as stated: a Cmp or Test gets a Load of its right operand exactly when
\* both operands are memory, its left operand is left as it was, and no Cmp
\* or Test of the split output has two memory operands.
C29_CmpLoadsRightExactly ==
    /\ \A k \in SplitDone :
          At(asm.insns, k).op \in {"Cmp", "Test"} =>
              /\ OpndLoaded(k, 2) <=> BothMemory(k)
              /\ ~OpndLoaded(k, 1)
    /\ NoMemToMemCmp

\* C29 amended: the Cmp/Test rule loads the right operand exactly when both
\* operands are memory and never the left one; apart from the rule, an operand
\* that is a heap or wide Value was replaced by the output of a Load in the
\* operand loop and a smaller Value became a UImm. No Cmp or Test of the split
\* output has two memory operands.
C29_CmpLoadsRight ==
    /\ \A k \in SplitDone :
          At(asm.insns, k).op \in {"Cmp", "Test"} =>
              LET n1 == IF OpndLoaded(k, 1) THEN 1 ELSE 0
                  n2 == IF OpndLoaded(k, 2) THEN 1 ELSE 0
              IN /\ BothMemory(k) => IsLoadOf(k, FinalOpnd(k, 2), MappedOpnd(k, 2))
                 /\ OpndLoaded(k, 2) <=> BothMemory(k) \/ PromotedValue(OldOpnd(k, 2))
                 /\ OpndLoaded(k, 1) <=> PromotedValue(OldOpnd(k, 1))
                 /\ \A p \in 1..2 :
                       ~OpndLoaded(k, p) =>
                           FinalOpnd(k, p) = IF OldOpnd(k, p).kind = "Value"
                                             THEN UImm(as_u64(OldOpnd(k, p).val))
                                             ELSE MappedOpnd(k, p)
                 /\ NumInserted(k) = n1 + n2
    /\ NoMemToMemCmp

\* a Test of a memory operand against memory based on an earlier output
C29_Witness ==
    \E k \in SplitDone :
        /\ At(asm.insns, k).op = "Test"
        /\ OldOpnd(k, 1) = mem(64, EC, 0)
        /\ IsMemInsnOut(OldOpnd(k, 2))
        /\ IsLoadOf(k, FinalOpnd(k, 2), MappedOpnd(k, 2))
        /\ FinalOpnd(k, 1) = mem(64, EC, 0)

\* ------------------------------------ reuse of a dying register (SpecSpill)
\* instruction i of the Assembler handed to alloc_regs is not a CCall, its
\* output is read later, and its first operand is an output read here last
ReusesFirst(i) ==
    LET insn == At(split.insns, i)
    IN /\ insn.op # "CCall"
       /\ At(split.live_ranges, i) # i
       /\ Len(insn.opnds) > 0
       /\ insn.opnds[1].kind = "InsnOut"
       /\ At(split.live_ranges, insn.opnds[1].idx) = i

\* the register the first operand of instruction i was given
FirstReg(i) == At(alloc.insns, At(split.insns, i).opnds[1].idx).out

\* C30: when a used instruction other than a CCall has as first operand an
\* InsnOut(j) with live_ranges[j] equal to its index, alloc_regs gives its
\* output the register of j, whatever the opcode; the reclaim step of the same
\* iteration has released that register before, so take_reg does not trip
\* 'register already allocated' and the iteration does not abort.
C30_ReuseDyingFirst ==
    [][pc = "alloc" /\ alloc_index < Len(split.insns) /\ ReusesFirst(alloc_index) =>
          /\ pc' = "alloc"
          /\ err' = ""
          /\ Last(alloc'.insns).out.kind = "Reg"
          /\ Last(alloc'.insns).out.reg_no = FirstReg(alloc_index).reg_no
          /\ reg_position(regs, FirstReg(alloc_index)) # -1 =>
                /\ BitSet(pool, reg_position(regs, FirstReg(alloc_index)))
                /\ ~BitSet(PoolAfterReclaim.pool, reg_position(regs, FirstReg(alloc_index)))
                /\ BitSet(pool', reg_position(regs, FirstReg(alloc_index)))]_vars

\* the register of a Load in the pool went to the Add that read it last
C30_Witness ==
    /\ pc = "alloc"
    /\ alloc_index > 0
    /\ ReusesFirst(alloc_index - 1)
    /\ At(split.insns, alloc_index - 1).op = "Add"
    /\ At(split.insns, At(split.insns, alloc_index - 1).opnds[1].idx).op = "Load"
    /\ At(alloc.insns, alloc_index - 1).out = RAX_REG
    /\ FirstReg(alloc_index - 1) = RAX_REG
    /\ BitSet(pool, 0)

\* ------------------------------------ outputs without a register (SpecSpill)
\* the instructions alloc_regs has written so far have no output operand
\* exactly when nothing reads them, and a register otherwise
OutNoneIffUnused ==
    pc \in {"alloc", "done"} =>
        \A k \in 0..(Len(alloc.insns) - 1) :
            IF At(split.live_ranges, k) = k
            THEN At(alloc.insns, k).out = OpndNone
            ELSE At(alloc.insns, k).out.kind = "Reg"

\* the next instruction of alloc_regs has an output nobody reads
UnusedNext ==
    /\ pc = "alloc"
    /\ alloc_index < Len(split.insns)
    /\ At(split.live_ranges, alloc_index) = alloc_index

\* C31 as stated: out is None exactly for the instructions whose live range
\* ends at themselves and a register for the others, and an instruction with
\* unused output leaves the pool as it was.
C31_UnusedKeepsPool ==
    /\ []OutNoneIffUnused
    /\ [][UnusedNext => pool' = pool]_vars

\* C31 amended: out is None exactly for the instructions whose live range ends
\* at themselves and a register for the others; an instruction with unused
\* output takes no register: after it the pool is the pool the reclaim step
\* left, with the registers of the operands read there last released.
C31_UnusedTakesNoReg ==
    /\ []OutNoneIffUnused
    /\ [][UnusedNext =>
            /\ pool' = PoolAfterReclaim.pool
            /\ \A i \in 0..(Len(regs) - 1) : BitSet(pool', i) => BitSet(pool, i)]_vars

\* an Add nobody reads released the register of the Load it read last
C31_Witness ==
    /\ pc = "done"
    /\ Len(regs) > 0
    /\ \E k \in 1..(Len(alloc.insns) - 1) :
          /\ At(alloc.insns, k).op = "Add"
          /\ At(alloc.insns, k).out = OpndNone
          /\ At(alloc.insns, k).opnds[1] = RAX_REG
          /\ At(alloc.insns, k - 1).op = "Load"
          /\ At(alloc.insns, k - 1).out = RAX_REG

\* ------------------------------------------- what the emitted code computes
\* A processor state: the general-purpose registers by number, the flags ZF,
\* SF and OF, the C stack, and the stores to memory in program order. Values
\* are terms over what the registers and memory held at the start.
RegInit(n) == [v |-> "reg", n |-> n]

MemInit(addr) == [v |-> "mem", addr |-> addr]

ImmVal(bits) == [v |-> "imm", bits |-> bits]

Flags(zf, sf, of) == [zf |-> zf, sf |-> sf, of |-> of]

AllFlags == {Flags(z, s, o) : z \in BOOLEAN, s \in BOOLEAN, o \in BOOLEAN}

Cpu(flags) ==
    [r |-> [n \in 0..15 |-> RegInit(n)], flags |-> flags, stack |-> <<>>, stores |-> <<>>]

cpu_addr(c, o) == [base |-> c.r[o.base_reg_no], disp |-> o.disp]

\* the value of the last store to addr, or what memory held at the start
RECURSIVE cpu_load(_, _, _)
cpu_load(stores, k, addr) ==
    IF k = 0 THEN MemInit(addr)
    ELSE IF stores[k].addr = addr THEN stores[k].val
    ELSE cpu_load(stores, k - 1, addr)

cpu_read(c, o) ==
    IF o.x86 = "Reg" THEN c.r[o.reg_no]
    ELSE IF o.x86 = "Mem" THEN cpu_load(c.stores, Len(c.stores), cpu_addr(c, o))
    ELSE ImmVal(o.value)

cpu_write(c, o, val) ==
    IF o.x86 = "Reg" THEN [c EXCEPT !.r[o.reg_no] = val]
    ELSE [c EXCEPT !.stores = Append(@, [addr |-> cpu_addr(c, o), val |-> val])]

\* the condition under which each conditional move moves
cmov_taken(fn, f) ==
    CASE fn \in {"cmovz", "cmove"} -> f.zf
      [] fn \in {"cmovnz", "cmovne"} -> ~f.zf
      [] fn = "cmovl" -> f.sf # f.of
      [] fn = "cmovge" -> f.sf = f.of
      [] fn = "cmovle" -> f.zf \/ f.sf # f.of
      [] fn = "cmovg" -> ~f.zf /\ f.sf = f.of

CmovFns == {"cmovz", "cmove", "cmovnz", "cmovne", "cmovl", "cmovge", "cmovle", "cmovg"}

\* the flags after an instruction that sets them: a function of its result
flags_of(val) == [zf |-> [v |-> "zf", of |-> val], sf |-> [v |-> "sf", of |-> val],
                  of |-> [v |-> "of", of |-> val]]

\* one instruction of the encoder executed on c
cpu_step(c, e) ==
    IF e.fn \in {"mov", "movabs"} THEN cpu_write(c, e.args[1], cpu_read(c, e.args[2]))
    ELSE IF e.fn \in CmovFns
    THEN IF cmov_taken(e.fn, c.flags) THEN cpu_write(c, e.args[1], cpu_read(c, e.args[2]))
         ELSE c
    ELSE IF e.fn \in {"add", "sub", "and", "or", "xor"}
    THEN LET val == [v |-> e.fn, l |-> cpu_read(c, e.args[1]), r |-> cpu_read(c, e.args[2])]
         IN [cpu_write(c, e.args[1], val) EXCEPT !.flags = flags_of(val)]
    ELSE IF e.fn = "not"
    THEN cpu_write(c, e.args[1], [v |-> "not", l |-> cpu_read(c, e.args[1])])
    ELSE IF e.fn = "push" THEN [c EXCEPT !.stack = Append(@, cpu_read(c, e.args[1]))]
    ELSE IF e.fn = "pop"
    THEN [cpu_write(c, e.args[1], Last(c.stack)) EXCEPT
             !.stack = SubSeq(c.stack, 1, Len(c.stack) - 1)]
    ELSE IF e.fn = "pushfq" THEN [c EXCEPT !.stack = Append(@, c.flags)]
    ELSE IF e.fn = "popfq"
    THEN [c EXCEPT !.flags = Last(c.stack), !.stack = SubSeq(c.stack, 1, Len(c.stack) - 1)]
    ELSE IF e.fn = "call_ptr"
    THEN [c EXCEPT !.flags = flags_of([v |-> "call", n |-> e.args[1]]),
                   !.r = [n \in 0..15 |->
                             IF \E k \in 1..Len(get_caller_save_regs) :
                                    get_caller_save_regs[k].reg_no = n
                             THEN [v |-> "call", n |-> n] ELSE c.r[n]]]
    ELSE c

\* c after the instructions code[from..to] of the buffer
RECURSIVE cpu_run(_, _, _, _)
cpu_run(c, code, from, to) ==
    IF from > to THEN c ELSE cpu_run(cpu_step(c, code[from].enc), code, from + 1, to)

\* ------------------------------------------- conditional selects (SpecCSel)
MaxCSelLoads == 2

RECURSIVE CSelLoads(_)
CSelLoads(n) ==
    IF n = 0 THEN AssemblerNew
    ELSE push_insn(CSelLoads(n - 1), Insn("Load", <<mem(64, EC, 8 * (n - 1))>>, TargetNone, ""))

CSelSrcs(a) == {RSI_REG, mem(64, EC, 16), UImm(Bits64(0, 0, 0, 5))} \cup OutHandles(a)

\* up to MaxCSelLoads loads, a select between two operands, a store of what it
\* selected and possibly a later store of a loaded value; every load is read
CSelPrograms ==
    UNION {UNION {UNION {
        LET s == push_insn(a, Insn(op, <<t, f>>, TargetNone, ""))
            st == push_insn(s, Insn("Store", <<mem(64, EC, 24), out_opnd(s)>>, TargetNone, ""))
        IN {b \in {st} \cup {push_insn(st, Insn("Store", <<mem(64, EC, 32), h>>, TargetNone, ""))
                              : h \in OutHandles(a)} :
               \A h \in OutHandles(a) :
                   h \in {t, f} \/ (Len(b.insns) > Len(st.insns) /\ Last(b.insns).opnds[2] = h)}
        : f \in CSelSrcs(a)} : t \in CSelSrcs(a)}
        : a \in {CSelLoads(n) : n \in 0..MaxCSelLoads}, op \in CSelOps}

InitCSel ==
    /\ asm \in CSelPrograms
    /\ cb = CodeBlock(0, BigPage, BigPage, FALSE)
    /\ regs = get_alloc_regs
    /\ call = [fn |-> "compile_with_regs"]
    /\ pc = "compile"
    /\ err = ""
    /\ ret = OpndNone
    /\ split_index = 0
    /\ split_indices = <<>>
    /\ split = AssemblerNew
    /\ pool = 0
    /\ alloc_index = 0
    /\ alloc = AssemblerNew
    /\ emit = NoEmit

SpecCSel == InitCSel /\ [][NextEmit]_vars

\* the condition each select is named after, on the flags
csel_cond(op, f) ==
    CASE op \in {"CSelZ", "CSelE"} -> f.zf
      [] op \in {"CSelNZ", "CSelNE"} -> ~f.zf
      [] op = "CSelL" -> f.sf # f.of
      [] op = "CSelLE" -> f.zf \/ f.sf # f.of
      [] op = "CSelG" -> ~f.zf /\ f.sf = f.of
      [] op = "CSelGE" -> f.sf = f.of

\* the select of the compiled program, and the place of its cmov in the buffer
TheCSel == CHOOSE i \in 1..Len(alloc.insns) : alloc.insns[i].op \in CSelOps

TheCmov == CHOOSE i \in 1..Len(cb.code) : cb.code[i].enc.fn \in CmovFns

\* the first instruction emit_csel wrote for the select
CSelStart == IF alloc.insns[TheCSel].out # alloc.insns[TheCSel].opnds[1] THEN TheCmov - 1
             ELSE TheCmov

\* the pair emitted for the select leaves in out what truthy held before the
\* pair when the condition holds on flags, and what falsy held otherwise
CSelSelects(flags) ==
    LET insn == alloc.insns[TheCSel]
        before == cpu_run(Cpu(flags), cb.code, 1, CSelStart - 1)
        after == cpu_run(before, cb.code, CSelStart, TheCmov)
    IN cpu_read(after, into(insn.out)) =
           IF csel_cond(insn.op, flags) THEN cpu_read(before, into(insn.opnds[1]))
           ELSE cpu_read(before, into(insn.opnds[2]))

\* C32: for each of the eight selects the emitted pair (mov out, truthy unless
\* out already is truthy; cmov out, falsy under the negated condition) leaves
\* out equal to truthy when the select's condition holds on the flags and to
\* falsy otherwise, with the cmov the arm of that select names.
C32_CSelSelects ==
    pc = "emitted" =>
        /\ cb.code[TheCmov].enc.fn = cmov_fn(alloc.insns[TheCSel].op)
        /\ \A flags \in AllFlags : CSelSelects(flags)

\* C35: the output register of an instruction differs from the register of
\* every input operand other than the first, operands that die at the
\* instruction included.
C35_OutNotOtherInput ==
    pc = "emitted" =>
        \A i \in 1..Len(alloc.insns) : \A p \in 2..Len(alloc.insns[i].opnds) :
            alloc.insns[i].out.kind = "Reg" => alloc.insns[i].out # alloc.insns[i].opnds[p]

\* ------------------------------------- one register, one live value
\* instruction i holds a register of the pool that is still needed after k
HeldAcross(i, k) ==
    /\ i < k
    /\ k < At(split.live_ranges, i)
    /\ At(alloc.insns, i).out.kind = "Reg"
    /\ reg_position(regs, At(alloc.insns, i).out) # -1

\* C33: no register of the pool is held by two values at once: when
\* instruction i got a register of the pool and its last use is after k
\* (i < k < live_ranges[i]), a used output of k is in another register.
C33_NoSharedReg ==
    \A k \in 0..(Len(alloc.insns) - 1) : \A i \in 0..(k - 1) :
        HeldAcross(i, k) /\ At(alloc.insns, k).out.kind = "Reg"
            => At(alloc.insns, k).out.reg_no # At(alloc.insns, i).out.reg_no

\* two values live at once, the second allocated while the first was held
C33_Witness ==
    /\ pc = "done"
    /\ \E k \in 0..(Len(alloc.insns) - 1) : \E i \in 0..(k - 1) :
          /\ HeldAcross(i, k)
          /\ At(alloc.insns, k).op = "Load"
          /\ At(alloc.insns, i).out = RAX_REG
          /\ At(alloc.insns, k).out = RCX_REG

\* ------------------------------- instructions encoded in place (SpecInPlace)
EncodedInPlace == AluOps \cup ShiftOps \cup {"Not"}

InPlaceFirsts(a) ==
    {RSI_REG, mem(64, EC, 0), UImm(Bits64(0, 0, 0, 5)), Imm(Bits64(0, 0, 0, 5)),
     Value(V_FIXNUM_1), Value(V_HEAP)} \cup OutHandles(a)

InPlaceSeconds(a) == {UImm(Bits64(0, 0, 0, 1)), RSI_REG} \cup OutHandles(a)

InPlaceInsns(a) ==
    {Insn("Not", <<x>>, TargetNone, "") : x \in InPlaceFirsts(a)}
        \cup {Insn(op, <<x, y>>, TargetNone, "") :
                 op \in AluOps \cup ShiftOps, x \in InPlaceFirsts(a), y \in InPlaceSeconds(a)}

\* at most one load, one instruction encoded in place, a store of its result
\* and possibly a later store of the loaded value; the load is read
InPlacePrograms ==
    UNION {UNION {
        LET s == push_insn(a, i)
            st == push_insn(s, Insn("Store", <<mem(64, EC, 24), out_opnd(s)>>, TargetNone, ""))
        IN {b \in {st} \cup {push_insn(st, Insn("Store", <<mem(64, EC, 32), h>>, TargetNone, ""))
                              : h \in OutHandles(a)} :
               \A h \in OutHandles(a) :
                   \/ \E p \in 1..Len(i.opnds) : i.opnds[p] = h
                   \/ Len(b.insns) > Len(st.insns)}
        : i \in InPlaceInsns(a)} : a \in {CSelLoads(0), CSelLoads(1)}}

InitInPlace ==
    /\ asm \in InPlacePrograms
    /\ cb = CodeBlock(0, BigPage, BigPage, FALSE)
    /\ regs = get_alloc_regs
    /\ call = [fn |-> "compile_with_regs"]
    /\ pc = "compile"
    /\ err = ""
    /\ ret = OpndNone
    /\ split_index = 0
    /\ split_indices = <<>>
    /\ split = AssemblerNew
    /\ pool = 0
    /\ alloc_index = 0
    /\ alloc = AssemblerNew
    /\ emit = NoEmit

SpecInPlace == InitInPlace /\ [][NextEmit]_vars

\* C34: after x86_split and alloc_regs every Add, Sub, And, Or, Xor, Not,
\* LShift, RShift and URShift whose output is used has as out register the
\* register of its first operand, whatever kind of first operand the builder
\* was given (Imm, UImm and small special-constant Value included).
C34_OutIsFirstOperand ==
    pc \in {"emit", "emitted"} =>
        \A i \in 1..Len(alloc.insns) :
            alloc.insns[i].op \in EncodedInPlace /\ alloc.insns[i].out.kind = "Reg"
                => /\ alloc.insns[i].opnds[1].kind = "Reg"
                   /\ alloc.insns[i].opnds[1].reg_no = alloc.insns[i].out.reg_no

\* ------------------------------------------- arguments of a call (SpecArgs)
MaxCallLoads == 3

MaxCallArgs == 4

CallSrcs(a) == {UImm(Bits64(0, 0, 0, 5)), EC} \cup OutHandles(a)

\* up to MaxCallLoads loads, then a call on up to MaxCallArgs arguments among
\* which every loaded value is
CallPrograms ==
    UNION {{ccall(a, FunPtr(1), args) :
                args \in {s \in SeqsUpTo(CallSrcs(a), MaxCallArgs) :
                             \A h \in OutHandles(a) : \E p \in 1..Len(s) : s[p] = h}}
           : a \in {CSelLoads(n) : n \in 0..MaxCallLoads}}

InitArgs ==
    /\ asm \in CallPrograms
    /\ cb = CodeBlock(0, BigPage, BigPage, FALSE)
    /\ regs = get_alloc_regs
    /\ call = [fn |-> "compile_with_regs"]
    /\ pc = "compile"
    /\ err = ""
    /\ ret = OpndNone
    /\ split_index = 0
    /\ split_indices = <<>>
    /\ split = AssemblerNew
    /\ pool = 0
    /\ alloc_index = 0
    /\ alloc = AssemblerNew
    /\ emit = NoEmit

SpecArgs == InitArgs /\ [][NextEmit]_vars

\* the call in the buffer and the number of arguments it was given
TheCall == CHOOSE i \in 1..Len(cb.code) : cb.code[i].enc.fn = "call_ptr"

NumArgs == Len(Last(asm.insns).opnds)

\* the LoadInto of argument i (from 1) in the output of alloc_regs
ArgLoad(i) == alloc.insns[Len(alloc.insns) - 1 - NumArgs + i]

\* C36: when the call executes, each argument register holds the value its
\* argument had before the first LoadInto of the lowered sequence ran.
C36_ArgsArrive ==
    pc = "emitted" =>
        LET before == cpu_run(Cpu(Flags(FALSE, FALSE, FALSE)), cb.code, 1, TheCall - NumArgs - 1)
            atcall == cpu_run(before, cb.code, TheCall - NumArgs, TheCall - 1)
        IN \A i \in 1..NumArgs :
               /\ ArgLoad(i).op = "LoadInto"
               /\ ArgLoad(i).opnds[1] = C_ARG_OPNDS[i]
               /\ cpu_read(atcall, into(C_ARG_OPNDS[i])) = cpu_read(before, into(ArgLoad(i).opnds[2]))

\* ------------------------------------ the loop of x86_emit ends (SpecEmitFair)
\* x86_emit at its entry, on the output of x86_split and alloc_regs, with the
\* write position near the end of the first page
InitEmitLoop ==
    /\ asm \in EmitPrograms(MaxEmitInsns)
    /\ regs = get_alloc_regs
    /\ split = x86_split(asm)
    /\ alloc = alloc_regs(split, regs)
    /\ alloc.err = ""
    /\ \E pages \in 1..MaxPages : \E dropped \in BOOLEAN :
          /\ cb = new_labels(CodeBlock(22, PageSize, pages * PageSize, dropped),
                             alloc.label_names).cb
          /\ emit = EmitStart(cb)
    /\ call = [fn |-> "x86_emit"]
    /\ pc = "emit"
    /\ err = ""
    /\ ret = OpndNone
    /\ split_index = Len(asm.insns)
    /\ split_indices = <<>>
    /\ pool = 0
    /\ alloc_index = Len(split.insns)

NextEmitLoop ==
    \/ EmitStep
    \/ EmitEnd

\* the loop is sequential code: nothing else is scheduled, so an iteration
\* that can run does run, and so does the return
SpecEmitFair ==
    /\ InitEmitLoop
    /\ [][NextEmitLoop]_vars
    /\ WF_vars(EmitStep)
    /\ WF_vars(EmitEnd)

\* C37: x86_emit terminates. The index never decreases and advances on every
\* iteration that is not a retry; an iteration is a retry only when next_page
\* succeeded; once the buffer has dropped bytes at the start of an instruction
\* it keeps them and no later instruction is retried; so, next_page succeeding
\* finitely often, the loop ends with the index at the number of instructions
\* unless an instruction panics.
C37_EmitTerminates ==
    /\ [][pc = "emit" /\ pc' \in {"emit", "abort"} => emit'.insns_idx >= emit.insns_idx]_vars
    /\ [][EmitIteration =>
            LET r == emit_insn(cb, At(alloc.insns, emit.insns_idx), emit.start_write_pos)
            IN /\ ~emit'.attempt.retry => emit'.insns_idx = emit.insns_idx + 1
               /\ emit'.attempt.retry =>
                    /\ emit'.insns_idx = emit.insns_idx
                    /\ next_page(r.cb, cb.write_pos).ok
                    /\ cb'.write_pos > cb.write_pos
               /\ cb.dropped_bytes => ~emit'.attempt.retry /\ cb'.dropped_bytes]_vars
    /\ [](pc = "emitted" => emit.insns_idx = Len(alloc.insns))
    /\ <>(pc \in {"emitted", "abort"})

\* the loop ended after an instruction was retried on the next page
C37_Witness ==
    /\ pc = "emitted"
    /\ emit.retries > 0
    /\ emit.insns_idx = Len(alloc.insns)
    /\ Len(alloc.insns) >= 2

\* ------------------------------------- the label table (SpecRegister)
MaxTableLabels == 2

MaxTableInsns == 2

TableNames == {LABEL, <<"e", "n", "d">>}

RECURSIVE new_label_each(_, _, _)
new_label_each(a, names, k) ==
    IF k > Len(names) THEN a ELSE new_label_each(new_label(a, names[k]), names, k + 1)

TableInsns(a) ==
    {Insn("Comment", <<>>, TargetNone, "text")}
        \cup UNION {{Insn("Label", <<>>, Label(i), ""), Insn("Jmp", <<>>, Label(i), "")}
                    : i \in 0..(Len(a.label_names) - 1)}

RECURSIVE push_each(_, _, _)
push_each(a, insns, k) ==
    IF k > Len(insns) THEN a
    ELSE push_each(IF insns[k].op = "Label" THEN write_label(a, insns[k].target)
                   ELSE push_insn(a, insns[k]),
                   insns, k + 1)

\* up to MaxTableLabels labels, then up to MaxTableInsns labels written, jumps and comments
TablePrograms ==
    UNION {{push_each(a, body, 1) : body \in SeqsUpTo(TableInsns(a), MaxTableInsns)}
           : a \in {new_label_each(AssemblerNew, names, 1)
                       : names \in SeqsUpTo(TableNames, MaxTableLabels)}}

\* the code buffer is new, or holds a label an earlier user left in it
InitRegister ==
    /\ asm \in TablePrograms
    /\ cb \in {CodeBlock(0, BigPage, BigPage, FALSE),
               cb_new_label(CodeBlock(0, BigPage, BigPage, FALSE), <<"o", "l", "d">>)}
    /\ regs = get_alloc_regs
    /\ call = [fn |-> "compile_with_regs"]
    /\ pc = "compile"
    /\ err = ""
    /\ ret = OpndNone
    /\ split_index = 0
    /\ split_indices = <<>>
    /\ split = AssemblerNew
    /\ pool = 0
    /\ alloc_index = 0
    /\ alloc = AssemblerNew
    /\ emit = NoEmit

SpecRegister == InitRegister /\ [][NextEmit]_vars

\* C38: the label-name table goes through x86_split and alloc_regs unchanged;
\* compile_with_regs registers the names with the code buffer in that order
\* before anything is emitted, and aborts when the buffer returns an index
\* that is not the assembler's.
C38_LabelTable ==
    /\ [](pc \in {"emit", "emitted"} =>
            /\ split.label_names = asm.label_names
            /\ alloc.label_names = asm.label_names)
    /\ [][pc = "compile" =>
            IF asm.label_names # <<>> /\ cb.label_addrs # <<>>
            THEN pc' = "abort" /\ err' = "assertion failed: label_idx == idx"
            ELSE /\ pc' = "emit"
                 /\ cb'.label_names = cb.label_names \o asm.label_names
                 /\ Len(cb'.label_addrs) = Len(cb'.label_names)
                 /\ cb'.code = cb.code
                 /\ cb'.write_pos = cb.write_pos]_vars

\* two labels of different names are registered in the order of the table
C38_Witness ==
    /\ pc = "emit"
    /\ emit.insns_idx = 0
    /\ asm.label_names = <<LABEL, <<"e", "n", "d">>>>
    /\ cb.label_names = asm.label_names

\* ------------------------------------ saving around a call (SpecPushAll)
MaxSaved == 2

\* what runs between the CPushAll and the CPopAll
SavedInsns ==
    {Insn("LoadInto", <<RSI_REG, UImm(Bits64(0, 0, 0, 5))>>, TargetNone, ""),
     Insn("Mov", <<RAX_REG, RDI_REG>>, TargetNone, ""),
     Insn("Add", <<RSI_REG, UImm(Bits64(0, 0, 0, 1))>>, TargetNone, ""),
     Insn("CPush", <<RSI_REG>>, TargetNone, ""),
     Insn("CPopInto", <<R9_REG>>, TargetNone, ""),
     Insn("CCall", <<>>, FunPtr(1), "")}

PushAllPrograms ==
    {push_insn(push_each(push_insn(AssemblerNew, Insn("CPushAll", <<>>, TargetNone, "")), body, 1),
               Insn("CPopAll", <<>>, TargetNone, ""))
        : body \in SeqsUpTo(SavedInsns, MaxSaved)}

InitPushAll ==
    /\ asm \in PushAllPrograms
    /\ cb = CodeBlock(0, BigPage, BigPage, FALSE)
    /\ \E num_regs \in 1..Len(get_alloc_regs) : regs = SubSeq(get_alloc_regs, 1, num_regs)
    /\ call = [fn |-> "compile_with_regs"]
    /\ pc = "compile"
    /\ err = ""
    /\ ret = OpndNone
    /\ split_index = 0
    /\ split_indices = <<>>
    /\ split = AssemblerNew
    /\ pool = 0
    /\ alloc_index = 0
    /\ alloc = AssemblerNew
    /\ emit = NoEmit

SpecPushAll == InitPushAll /\ [][NextEmit]_vars

\* the stack pointer after insns[from..to], relative to the one before
RECURSIVE StackDepth(_, _, _)
StackDepth(insns, from, to) ==
    IF from > to THEN 0
    ELSE StackDepth(insns, from, to - 1)
             + (IF insns[to].op = "CPush" THEN 1 ELSE IF insns[to].op = "CPopInto" THEN -1 ELSE 0)

\* what is between the CPushAll and the CPopAll pops only what it pushed
BalancedUse ==
    /\ StackDepth(asm.insns, 2, Len(asm.insns) - 1) = 0
    /\ \A k \in 2..(Len(asm.insns) - 1) : StackDepth(asm.insns, 2, k) >= 0

NumSaved == Len(get_caller_save_regs)

\* C39: CPushAll pushes the caller-save registers in list order and then the
\* flags, CPopAll pops the flags and then the registers in reverse order, and
\* after a CPushAll and a CPopAll with balanced stack use in between every
\* caller-save register and the flags hold what they held before.
C39_PopAllRestores ==
    pc = "emitted" =>
        LET n == Len(cb.code)
        IN /\ \A k \in 1..NumSaved :
                /\ cb.code[k].enc = Enc("push", <<X86Reg(get_caller_save_regs[k])>>)
                /\ cb.code[n - NumSaved + k].enc =
                       Enc("pop", <<X86Reg(get_caller_save_regs[NumSaved + 1 - k])>>)
           /\ cb.code[NumSaved + 1].enc = Enc("pushfq", <<>>)
           /\ cb.code[n - NumSaved].enc = Enc("popfq", <<>>)
           /\ BalancedUse =>
                \A flags \in AllFlags :
                    LET end == cpu_run(Cpu(flags), cb.code, 1, n)
                    IN /\ end.flags = flags
                       /\ end.stack = <<>>
                       /\ \A k \in 1..NumSaved :
                              end.r[get_caller_save_regs[k].reg_no] =
                                  RegInit(get_caller_save_regs[k].reg_no)

\* a call and an addition between the two: registers and flags were changed
C39_Witness ==
    /\ pc = "emitted"
    /\ BalancedUse
    /\ \E i \in 1..Len(cb.code) : cb.code[i].enc.fn = "call_ptr"
    /\ \E i \in 1..Len(cb.code) : cb.code[i].enc.fn = "add"
    /\ cpu_run(Cpu(Flags(TRUE, FALSE, FALSE)), cb.code, 1, Len(cb.code) - NumSaved - 1).r[0]
           # RegInit(0)

\* ------------------------------- the first draft of the Assembler (SpecDraft)
MaxDraftInsns == 3

\* the loop over the operands of push_insn: [live_ranges, err]
RECURSIVE draft_extend(_, _, _, _)
draft_extend(live_ranges, opnds, p, insn_idx) ==
    IF p > Len(opnds) THEN [live_ranges |-> live_ranges, err |-> ""]
    ELSE IF opnds[p].kind # "InsnOut"
    THEN draft_extend(live_ranges, opnds, p + 1, insn_idx)
    ELSE IF opnds[p].idx >= Len(live_ranges)
    THEN [live_ranges |-> live_ranges, err |-> "index out of bounds"]
    ELSE draft_extend([live_ranges EXCEPT ![opnds[p].idx + 1] = insn_idx], opnds, p + 1,
                      insn_idx)

draft_push_insn(a, op, opnds, target) ==
    LET insn_idx == Len(a.insns)
        e == draft_extend(a.live_ranges, opnds, 1, insn_idx)
    IN IF e.err # "" THEN [a EXCEPT !.err = e.err]
       ELSE [a EXCEPT !.insns = Append(@, Insn(op, opnds, target, "")),
                      !.live_ranges = Append(e.live_ranges, insn_idx)]

draft_comment(a, text) ==
    [a EXCEPT !.insns = Append(@, Insn("Comment", <<>>, TargetNone, text))]

draft_label(a, name) ==
    [a EXCEPT !.insns = Append(@, Insn("Label", <<>>, TargetNone, name))]

\* the outputs push_insn has returned to the caller
DraftHandles(a) ==
    {InsnOut(i, 64) : i \in {j \in 0..(Len(a.insns) - 1) :
                                At(a.insns, j).op \notin {"Comment", "Label"}}}

DraftOpnds(a) == {EC, UImm(Bits64(0, 0, 0, 1))} \cup DraftHandles(a)

DraftPush ==
    /\ pc = "build"
    /\ Len(asm.insns) < MaxDraftInsns
    /\ \E left \in DraftOpnds(asm) : \E right \in DraftOpnds(asm) :
          LET a == draft_push_insn(asm, "Add", <<left, right>>, TargetNone)
          IN /\ asm' = a
             /\ err' = a.err
             /\ pc' = IF a.err = "" THEN "build" ELSE "abort"
             /\ ret' = IF a.err = "" THEN InsnOut(Len(asm.insns), 64) ELSE OpndNone
             /\ call' = [fn |-> "push_insn", opnds |-> <<left, right>>]
    /\ UNCHANGED <<split_index, split_indices, split, regs, pool, alloc_index, alloc, cb, emit>>

DraftComment ==
    /\ pc = "build"
    /\ Len(asm.insns) < MaxDraftInsns
    /\ asm' = draft_comment(asm, "text")
    /\ ret' = OpndNone
    /\ call' = [fn |-> "comment"]
    /\ UNCHANGED <<pc, err, split_index, split_indices, split, regs, pool, alloc_index, alloc,
                   cb, emit>>

DraftLabel ==
    /\ pc = "build"
    /\ Len(asm.insns) < MaxDraftInsns
    /\ asm' = draft_label(asm, "name")
    /\ ret' = OpndNone
    /\ call' = [fn |-> "label"]
    /\ UNCHANGED <<pc, err, split_index, split_indices, split, regs, pool, alloc_index, alloc,
                   cb, emit>>

DraftAllocRegs ==
    /\ pc = "build"
    /\ \E r \in {draft_alloc_regs(asm, regs)} :
          /\ alloc' = [asm EXCEPT !.insns = r.insns]
          /\ pool' = r.pool
          /\ err' = r.err
          /\ pc' = IF r.err = "" THEN "done" ELSE "abort"
    /\ alloc_index' = Len(asm.insns)
    /\ call' = [fn |-> "alloc_regs"]
    /\ UNCHANGED <<asm, ret, split_index, split_indices, split, regs, cb, emit>>

InitDraft ==
    /\ asm = AssemblerNew
    /\ \E num_regs \in 1..2 : regs = SubSeq(get_alloc_regs, 1, num_regs)
    /\ pc = "build"
    /\ err = ""
    /\ ret = OpndNone
    /\ call = NoCall
    /\ split_index = 0
    /\ split_indices = <<>>
    /\ split = AssemblerNew
    /\ pool = 0
    /\ alloc_index = 0
    /\ alloc = AssemblerNew
    /\ cb = NoCodeBlock
    /\ emit = NoEmit

NextDraft ==
    \/ DraftPush
    \/ DraftComment
    \/ DraftLabel
    \/ DraftAllocRegs

SpecDraft == InitDraft /\ [][NextDraft]_vars

\* the index of the last instruction of a that reads the output of k, k when none does
DraftLastUse(a, k) ==
    LET readers == {j \in 0..(Len(a.insns) - 1) :
                       \E p \in 1..Len(At(a.insns, j).opnds) :
                           At(a.insns, j).opnds[p] = InsnOut(k, 64)}
    IN IF readers = {} THEN k ELSE CHOOSE j \in readers : \A i \in readers : i <= j

\* C40: in the first draft live_ranges is parallel to insns: after any
\* sequence of push_insn, comment and label calls both have the same length
\* and live_ranges[k] is the index of the last instruction that uses the
\* output of k; so alloc_regs gives a register exactly to the instructions
\* whose output is read later and ends with an empty pool.
C40_DraftParallel ==
    /\ pc = "build" =>
          /\ Len(asm.insns) = Len(asm.live_ranges)
          /\ \A k \in 0..(Len(asm.live_ranges) - 1) :
                At(asm.live_ranges, k) = DraftLastUse(asm, k)
    /\ pc = "done" =>
          /\ pool = 0
          /\ \A k \in 0..(Len(alloc.insns) - 1) :
                At(alloc.insns, k).out.kind = "Reg" <=> DraftLastUse(asm, k) # k

====
